---- MODULE Spec2Model ----
(***************************************************************************)
(* Outline extraction (adobe_challenge1a): the batch driver main() and the *)
(* PDFOutlineExtractor pipeline                                            *)
(*   extract_title, detect_document_type, extract_headings,                *)
(*   classify_headings, post_process_headings.                             *)
(* Text is a sequence of one-character strings, so that the regular        *)
(* expressions, substring tests, case folding and splitting of the source  *)
(* are computed character by character.                                    *)
(***************************************************************************)
EXTENDS Integers, Sequences, FiniteSets, TLC

(***************************************************************************)
(* Characters and the str methods the source uses                          *)
(***************************************************************************)
UpperChars == {"A","B","C","D","E","F","G","H","I","J","K","L","M","N","O","P","Q","R","S","T","U","V","W","X","Y","Z"}

LowerChars == {"a","b","c","d","e","f","g","h","i","j","k","l","m","n","o","p","q","r","s","t","u","v","w","x","y","z"}

DigitChars == {"0","1","2","3","4","5","6","7","8","9"}

\* str.lower() on the letters A-Z
LowerMap ==
    "A" :> "a" @@ "B" :> "b" @@ "C" :> "c" @@ "D" :> "d" @@ "E" :> "e" @@ "F" :> "f" @@ "G" :> "g"
    @@ "H" :> "h" @@ "I" :> "i" @@ "J" :> "j" @@ "K" :> "k" @@ "L" :> "l" @@ "M" :> "m" @@ "N" :> "n"
    @@ "O" :> "o" @@ "P" :> "p" @@ "Q" :> "q" @@ "R" :> "r" @@ "S" :> "s" @@ "T" :> "t" @@ "U" :> "u"
    @@ "V" :> "v" @@ "W" :> "w" @@ "X" :> "x" @@ "Y" :> "y" @@ "Z" :> "z"

IsSpace(c) == c \in {" ", "\t", "\n"}

LowerChar(c) == IF c \in UpperChars THEN LowerMap[c] ELSE c

\* str.lower()
Lower(t) == [i \in 1..Len(t) |-> LowerChar(t[i])]

\* str.strip()
Strip(t) ==
    LET keep == {i \in 1..Len(t) : ~IsSpace(t[i])}
    IN  IF keep = {} THEN <<>>
        ELSE LET a == CHOOSE i \in keep : \A j \in keep : i <= j
                 b == CHOOSE i \in keep : \A j \in keep : i >= j
             IN  SubSeq(t, a, b)

\* t[i..] starts with w (1-based i)
MatchAt(t, i, w) ==
    /\ i >= 1
    /\ i + Len(w) - 1 <= Len(t)
    /\ \A j \in 1..Len(w) : t[i + j - 1] = w[j]

\* the Python test "w in t" on strings
Contains(t, w) == \E i \in 1..(Len(t) - Len(w) + 1) : MatchAt(t, i, w)

StartsWith(t, w) == MatchAt(t, 1, w)

\* str.endswith
EndsWith(t, w) == Len(w) <= Len(t) /\ MatchAt(t, Len(t) - Len(w) + 1, w)

\* first index >= i that is past the end of t or holds a character outside S
RunEnd(t, i, S) ==
    LET stop == {j \in i..Len(t) : t[j] \notin S}
    IN  IF stop = {} THEN Len(t) + 1
        ELSE CHOOSE j \in stop : \A k \in stop : j <= k

DigitsEnd(t, i) == RunEnd(t, i, DigitChars)

SpacesEnd(t, i) == RunEnd(t, i, {" ", "\t", "\n"})

\* first index >= i that is past the end of t or holds whitespace
TokenEnd(t, i) ==
    LET stop == {j \in i..Len(t) : IsSpace(t[j])}
    IN  IF stop = {} THEN Len(t) + 1
        ELSE CHOOSE j \in stop : \A k \in stop : j <= k

RECURSIVE SplitFrom(_, _)
SplitFrom(t, i) ==
    LET a == SpacesEnd(t, i)
    IN  IF a > Len(t) THEN <<>>
        ELSE LET b == TokenEnd(t, a)
             IN  <<SubSeq(t, a, b - 1)>> \o SplitFrom(t, b)

\* str.split() with no argument: the whitespace-separated tokens
Split(t) == SplitFrom(t, 1)

RECURSIVE SplitLinesFrom(_, _)
SplitLinesFrom(t, i) ==
    LET stop == {j \in i..Len(t) : t[j] = "\n"}
    IN  IF stop = {} THEN <<SubSeq(t, i, Len(t))>>
        ELSE LET b == CHOOSE j \in stop : \A k \in stop : j <= k
             IN  <<SubSeq(t, i, b - 1)>> \o SplitLinesFrom(t, b + 1)

\* str.split('\n')
SplitLines(t) == SplitLinesFrom(t, 1)

RECURSIVE Join(_, _)
\* sep.join(parts)
Join(parts, sep) ==
    IF Len(parts) = 0 THEN <<>>
    ELSE IF Len(parts) = 1 THEN parts[1]
    ELSE parts[1] \o sep \o Join(Tail(parts), sep)

\* parts[:n]
Take(s, n) == SubSeq(s, 1, IF Len(s) < n THEN Len(s) ELSE n)

\* str.isupper(): no lowercase letter and at least one uppercase letter
IsUpperStr(t) ==
    /\ \E i \in 1..Len(t) : t[i] \in UpperChars
    /\ \A i \in 1..Len(t) : t[i] \notin LowerChars

(***************************************************************************)
(* PDFOutlineExtractor.__init__: heading patterns and keywords             *)
(***************************************************************************)
\* r'^[A-Z][A-Z\s]+$'
MatchAllCaps(t) ==
    /\ Len(t) >= 2
    /\ t[1] \in UpperChars
    /\ \A i \in 2..Len(t) : t[i] \in UpperChars \/ IsSpace(t[i])

\* r'^\d+\.' : the index after the dot, 0 when there is no match
NumDotEnd(t, i) ==
    LET d == DigitsEnd(t, i)
    IN  IF d > i /\ d <= Len(t) /\ t[d] = "." THEN d + 1 ELSE 0

\* r'\s+[X]' from index i, X a character class
SpacesThen(t, i, S) ==
    LET s == SpacesEnd(t, i)
    IN  i >= 1 /\ s > i /\ s <= Len(t) /\ t[s] \in S

\* r'^\d+\.\s+[A-Z]'
MatchNumbered(t) ==
    LET a == NumDotEnd(t, 1)
    IN  a > 0 /\ SpacesThen(t, a, UpperChars)

\* r'^\d+\.\d+' : the index after the second number, 0 when there is no match
NumNumEnd(t) ==
    LET a == NumDotEnd(t, 1)
    IN  IF a = 0 THEN 0
        ELSE LET d == DigitsEnd(t, a)
             IN  IF d > a THEN d ELSE 0

\* r'^\d+\.\d+\s+[A-Z]'
MatchSubsection(t) ==
    LET b == NumNumEnd(t)
    IN  b > 0 /\ SpacesThen(t, b, UpperChars)

\* r'^\d+\.\d+\.\d+' : the index after the third number, 0 when there is no match
NumNumNumEnd(t) ==
    LET b == NumNumEnd(t)
    IN  IF b = 0 \/ b > Len(t) THEN 0
        ELSE IF t[b] # "." THEN 0
        ELSE LET d == DigitsEnd(t, b + 1)
             IN  IF d > b + 1 THEN d ELSE 0

\* r'^\d+\.\d+\.\d+\s+[A-Z]'
MatchSubSubsection(t) ==
    LET c == NumNumNumEnd(t)
    IN  c > 0 /\ SpacesThen(t, c, UpperChars)

RECURSIVE TitleWordsFrom(_, _)
\* r'[A-Z][a-z]+(?:\s+[A-Z][a-z]+)*$' from index i
TitleWordsFrom(t, i) ==
    /\ i <= Len(t)
    /\ t[i] \in UpperChars
    /\ LET e == RunEnd(t, i + 1, LowerChars)
       IN  /\ e > i + 1
           /\ \/ e > Len(t)
              \/ e = Len(t) /\ t[e] = "\n"
              \/ LET s == SpacesEnd(t, e)
                 IN  s > e /\ TitleWordsFrom(t, s)

\* r'^[A-Z][a-z]+(?:\s+[A-Z][a-z]+)*$'
MatchTitleCase(t) == TitleWordsFrom(t, 1)

\* r'^<word>\s+[X]' for a literal word
MatchWordThen(t, w, S) == StartsWith(t, w) /\ SpacesThen(t, Len(w) + 1, S)

\* r'^Chapter\s+\d+', r'^Section\s+\d+', r'^Appendix\s+[A-Z]'
MatchChapter(t) == MatchWordThen(t, <<"C","h","a","p","t","e","r">>, DigitChars)

MatchSection(t) == MatchWordThen(t, <<"S","e","c","t","i","o","n">>, DigitChars)

MatchAppendix(t) == MatchWordThen(t, <<"A","p","p","e","n","d","i","x">>, UpperChars)

\* any(re.match(pattern, text) for pattern in self.heading_patterns)
heading_patterns(t) ==
    \/ MatchAllCaps(t)
    \/ MatchNumbered(t)
    \/ MatchSubsection(t)
    \/ MatchSubSubsection(t)
    \/ MatchTitleCase(t)
    \/ MatchChapter(t)
    \/ MatchSection(t)
    \/ MatchAppendix(t)

heading_keywords ==
    { <<"i","n","t","r","o","d","u","c","t","i","o","n">>, <<"c","o","n","c","l","u","s","i","o","n">>, <<"a","b","s","t","r","a","c","t">>, <<"s","u","m","m","a","r","y">>,
      <<"r","e","f","e","r","e","n","c","e","s">>, <<"b","i","b","l","i","o","g","r","a","p","h","y">>, <<"a","p","p","e","n","d","i","x">>, <<"m","e","t","h","o","d","o","l","o","g","y">>,
      <<"r","e","s","u","l","t","s">>, <<"d","i","s","c","u","s","s","i","o","n">>, <<"b","a","c","k","g","r","o","u","n","d">>, <<"r","e","l","a","t","e","d"," ","w","o","r","k">>,
      <<"f","u","t","u","r","e"," ","w","o","r","k">>, <<"l","i","m","i","t","a","t","i","o","n","s">>, <<"a","c","k","n","o","w","l","e","d","g","e","m","e","n","t","s">>,
      <<"t","a","b","l","e"," ","o","f"," ","c","o","n","t","e","n","t","s">>, <<"r","e","v","i","s","i","o","n"," ","h","i","s","t","o","r","y">>, <<"e","x","e","c","u","t","i","v","e"," ","s","u","m","m","a","r","y">>,
      <<"o","v","e","r","v","i","e","w">>, <<"p","r","e","f","a","c","e">>, <<"f","o","r","e","w","o","r","d">>, <<"p","a","t","h","w","a","y"," ","o","p","t","i","o","n","s">>,
      <<"h","o","p","e"," ","t","o"," ","s","e","e"," ","y","o","u"," ","t","h","e","r","e">>, <<"o","n","t","a","r","i","o">>, <<"d","i","g","i","t","a","l"," ","l","i","b","r","a","r","y">> }

\* _is_potential_heading_line(text, doc_type)
is_potential_heading_line(text, doc_type) ==
    IF Len(text) < 3 THEN FALSE
    ELSE \/ heading_patterns(text)
         \/ \E k \in heading_keywords : Contains(Lower(text), k)
         \/ LET a == NumDotEnd(text, 1)                \* r'^\d+\.\s*[A-Z]'
            IN  a > 0 /\ LET s == SpacesEnd(text, a)
                         IN  s <= Len(text) /\ text[s] \in UpperChars
         \/ NumNumEnd(text) > 0                         \* r'^\d+\.\d+'
         \/ /\ text[1] \in UpperChars
            /\ Len(Split(text)) >= 2
            /\ Len(Split(text)) <= 20
         \/ IsUpperStr(text) /\ Len(text) > 3
         \/ /\ doc_type = "application form"
            /\ MatchNumbered(text)
            /\ Len(Split(text)) > 3

(***************************************************************************)
(* The document as pdfplumber presents it: pdf.pages, and for each page    *)
(* extract_text() (a string with "\n" between lines) and extract_words()   *)
(* (a list of words with their text and font size).                        *)
(***************************************************************************)
Unknown == <<"U","n","k","n","o","w","n">>

\* max of a non-empty set of numbers
MaxOf(S) == CHOOSE m \in S : \A n \in S : n <= m

\* _extract_title: re.sub(r'\s+', ' ', title).strip()
CollapseSpaces(t) == Join(Split(t), <<" ">>)

\* _extract_title: re.sub(r'^\d+\.\s*', '', title)
StripNumberPrefix(t) ==
    LET a == NumDotEnd(t, 1)
    IN  IF a = 0 THEN t ELSE SubSeq(t, SpacesEnd(t, a), Len(t))

\* _extract_title: re.sub(r'^[A-Z\s]+:\s*', '', title)
StripCapsPrefix(t) ==
    LET e == RunEnd(t, 1, UpperChars \cup {" ", "\t", "\n"})
    IN  IF e > 1 /\ e <= Len(t) /\ t[e] = ":"
        THEN SubSeq(t, SpacesEnd(t, e + 1), Len(t))
        ELSE t

\* _extract_title: the document-specific corrections and the trailing spaces
TitleCorrection(title) ==
    LET low == Lower(title)
    IN  IF Contains(low, <<"a","p","p","l","i","c","a","t","i","o","n"," ","f","o","r","m"," ","f","o","r"," ","g","r","a","n","t"," ","o","f"," ","l","t","c"," ","a","d","v","a","n","c","e">>)
        THEN <<"A","p","p","l","i","c","a","t","i","o","n"," ","f","o","r","m"," ","f","o","r"," ","g","r","a","n","t"," ","o","f"," ","L","T","C"," ","a","d","v","a","n","c","e"," "," ">>
        ELSE IF Contains(low, <<"o","v","e","r","v","i","e","w">>) /\ Contains(low, <<"f","o","u","n","d","a","t","i","o","n">>)
        THEN <<"O","v","e","r","v","i","e","w"," "," ","F","o","u","n","d","a","t","i","o","n"," ","L","e","v","e","l"," ","E","x","t","e","n","s","i","o","n","s"," "," ">>
        ELSE IF \/ Contains(low, <<"r","f","p">>)
                \/ Contains(low, <<"r","e","q","u","e","s","t"," ","f","o","r"," ","p","r","o","p","o","s","a","l">>)
                \/ Contains(low, <<"o","n","t","a","r","i","o">>)
        THEN <<"R","F","P",":","R","e","q","u","e","s","t"," ","f","o","r"," ","P","r","o","p","o","s","a","l"," ","T","o"," ","P","r","e","s","e","n","t"," ","a"," ","P","r","o","p","o","s","a","l"," ","f","o","r"," ","D","e","v","e","l","o","p","i","n","g"," ","t","h","e"," ","B","u","s","i","n","e","s","s"," ","P","l","a","n"," ","f","o","r"," ","t","h","e"," ","O","n","t","a","r","i","o"," ","D","i","g","i","t","a","l"," ","L","i","b","r","a","r","y"," "," ">>
        ELSE IF Contains(low, <<"p","a","r","s","i","p","p","a","n","y">>) /\ Contains(low, <<"s","t","e","m">>)
        THEN <<"P","a","r","s","i","p","p","a","n","y"," ","-","T","r","o","y"," ","H","i","l","l","s"," ","S","T","E","M"," ","P","a","t","h","w","a","y","s">>
        ELSE IF \/ Contains(low, <<"h","o","p","e"," ","t","o"," ","s","e","e"," ","y","o","u"," ","t","h","e","r","e">>)
                \/ Contains(low, <<"t","o","p","j","u","m","p">>)
        THEN <<>>
        ELSE title \o <<" ", " ">>

\* _extract_title(pdf)
extract_title(pdf) ==
    IF Len(pdf.pages) = 0 THEN Unknown
    ELSE
    LET words == pdf.pages[1].words
        full_text == pdf.pages[1].text
    IN  IF Len(words) = 0 /\ Len(full_text) = 0 THEN Unknown
        ELSE
        LET raw ==
              IF \E i \in 1..Len(words) : words[i].size > 0
              THEN LET largest_size == MaxOf({words[i].size : i \in 1..Len(words)})
                       first30 == Take(words, 30)
                       \* size >= largest_size * 0.6, on whole-number sizes
                       sel == SelectSeq(first30,
                                LAMBDA w : 10 * w.size >= 6 * largest_size)
                       title_words == [i \in 1..Len(sel) |-> sel[i].text]
                   IN  Join(Take(title_words, 15), <<" ">>)
              ELSE LET lines == Take(SplitLines(full_text), 3)
                       kept == SelectSeq(lines, LAMBDA l : Len(Strip(l)) > 3)
                       title_lines == [i \in 1..Len(kept) |-> Strip(kept[i])]
                   IN  Join(Take(title_lines, 2), <<" ">>)
            title == TitleCorrection(
                       StripCapsPrefix(StripNumberPrefix(CollapseSpaces(raw))))
        IN  IF Len(title) > 0 THEN title ELSE Unknown

RECURSIVE ConcatLowerText(_, _)
\* text_content += pdf.pages[i].extract_text().lower() for the first n pages
ConcatLowerText(pages, n) ==
    IF n = 0 THEN <<>>
    ELSE ConcatLowerText(pages, n - 1) \o Lower(pages[n].text)

\* the cascade with the rfp triggers tested before the invitation triggers
detect_document_type_RfpFirst(pdf) ==
    IF Len(pdf.pages) = 0 THEN "unknown"
    ELSE
    LET n == IF Len(pdf.pages) < 3 THEN Len(pdf.pages) ELSE 3
        text_content == ConcatLowerText(pdf.pages, n)
        has(w) == Contains(text_content, w)
    IN  IF has(<<"r","f","p">>) \/ has(<<"r","e","q","u","e","s","t"," ","f","o","r"," ","p","r","o","p","o","s","a","l">>)
        THEN "rfp document"
        ELSE IF has(<<"h","o","p","e"," ","t","o"," ","s","e","e"," ","y","o","u"," ","t","h","e","r","e">>) \/ has(<<"t","o","p","j","u","m","p">>)
        THEN "invitation"
        ELSE IF has(<<"o","n","t","a","r","i","o">>) /\ has(<<"d","i","g","i","t","a","l"," ","l","i","b","r","a","r","y">>)
        THEN "rfp document"
        ELSE IF has(<<"a","p","p","l","i","c","a","t","i","o","n"," ","f","o","r","m">>) \/ has(<<"g","r","a","n","t"," ","o","f"," ","l","t","c">>)
        THEN "application form"
        ELSE IF has(<<"o","v","e","r","v","i","e","w">>) /\ has(<<"f","o","u","n","d","a","t","i","o","n"," ","l","e","v","e","l"," ","e","x","t","e","n","s","i","o","n","s">>)
        THEN "technical document"
        ELSE IF has(<<"p","a","r","s","i","p","p","a","n","y">>) /\ has(<<"s","t","e","m"," ","p","a","t","h","w","a","y","s">>)
        THEN "educational"
        ELSE "general"

\* _detect_document_type(pdf)
detect_document_type(pdf) ==
    IF Len(pdf.pages) = 0 THEN "unknown"
    ELSE
    LET n == IF Len(pdf.pages) < 3 THEN Len(pdf.pages) ELSE 3
        text_content == ConcatLowerText(pdf.pages, n)
        has(w) == Contains(text_content, w)
    IN  IF has(<<"h","o","p","e"," ","t","o"," ","s","e","e"," ","y","o","u"," ","t","h","e","r","e">>) \/ has(<<"t","o","p","j","u","m","p">>)
        THEN "invitation"
        ELSE IF has(<<"r","f","p">>) \/ has(<<"r","e","q","u","e","s","t"," ","f","o","r"," ","p","r","o","p","o","s","a","l">>)
        THEN "rfp document"
        ELSE IF has(<<"o","n","t","a","r","i","o">>) /\ has(<<"d","i","g","i","t","a","l"," ","l","i","b","r","a","r","y">>)
        THEN "rfp document"
        ELSE IF has(<<"a","p","p","l","i","c","a","t","i","o","n"," ","f","o","r","m">>) \/ has(<<"g","r","a","n","t"," ","o","f"," ","l","t","c">>)
        THEN "application form"
        ELSE IF has(<<"o","v","e","r","v","i","e","w">>) /\ has(<<"f","o","u","n","d","a","t","i","o","n"," ","l","e","v","e","l"," ","e","x","t","e","n","s","i","o","n","s">>)
        THEN "technical document"
        ELSE IF has(<<"p","a","r","s","i","p","p","a","n","y">>) /\ has(<<"s","t","e","m"," ","p","a","t","h","w","a","y","s">>)
        THEN "educational"
        ELSE "general"

(***************************************************************************)
(* _extract_headings                                                       *)
(* A heading is the Heading dataclass without font_name and bbox, which    *)
(* nothing reads after construction.                                       *)
(***************************************************************************)
\* re.sub(r'\.{2,}.*$', '', text).strip() + ' '
CleanText(text) ==
    LET dots == {i \in 1..(Len(text) - 1) : text[i] = "." /\ text[i + 1] = "."}
        cut == IF dots = {} THEN text
               ELSE SubSeq(text, 1, (CHOOSE i \in dots : \A j \in dots : i <= j) - 1)
    IN  Strip(cut) \o <<" ">>

\* the font size of a line: the largest size among the page's words whose text
\* is a substring of the line, 0 when there is none
LineFontSize(words, text) ==
    LET matching_words == SelectSeq(words, LAMBDA w : Contains(text, w.text))
    IN  IF Len(matching_words) = 0 THEN 0
        ELSE MaxOf({matching_words[i].size : i \in 1..Len(matching_words)})

RECURSIVE PageHeadings(_, _, _, _, _)
\* the inner loop of _extract_headings over the lines of one page, from line i
PageHeadings(page, page_num, lines, i, doc_type) ==
    IF i > Len(lines) THEN <<>>
    ELSE
    LET text == Strip(lines[i])
        rest == PageHeadings(page, page_num, lines, i + 1, doc_type)
    IN  IF Len(text) < 3 \/ Len(text) > 200 THEN rest
        ELSE IF is_potential_heading_line(text, doc_type)
        THEN << [text |-> CleanText(text),
                 level |-> "",
                 page |-> page_num,
                 font_size |-> LineFontSize(page.words, text)] >> \o rest
        ELSE rest

RECURSIVE CollectHeadings(_, _, _)
\* the outer loop of _extract_headings over pdf.pages, up to page n
CollectHeadings(pages, n, doc_type) ==
    IF n = 0 THEN <<>>
    ELSE CollectHeadings(pages, n - 1, doc_type)
         \o PageHeadings(pages[n], n, SplitLines(pages[n].text), 1, doc_type)

\* no duplicate is removed
UniqueHeadings_KeepsAll(headings) == headings

\* remove duplicate headings (same text on same page), keeping the first
UniqueHeadings(headings) ==
    LET first == {i \in 1..Len(headings) :
                    \A j \in 1..(i - 1) :
                       ~(headings[j].text = headings[i].text
                         /\ headings[j].page = headings[i].page)}
        RECURSIVE Pick(_)
        Pick(i) == IF i > Len(headings) THEN <<>>
                   ELSE IF i \in first THEN <<headings[i]>> \o Pick(i + 1)
                   ELSE Pick(i + 1)
    IN  Pick(1)

\* re.search(r'page \d+ of \d+', text)
SearchPageOf(t) ==
    \E i \in 1..Len(t) :
       /\ MatchAt(t, i, <<"p","a","g","e"," ">>)
       /\ LET d == DigitsEnd(t, i + 5)
          IN  /\ d > i + 5
              /\ MatchAt(t, d, <<" ","o","f"," ">>)
              /\ DigitsEnd(t, d + 4) > d + 4

\* re.search(r'version \d+', text)
SearchVersion(t) ==
    \E i \in 1..Len(t) :
       MatchAt(t, i, <<"v","e","r","s","i","o","n"," ">>) /\ DigitsEnd(t, i + 8) > i + 8

\* the skip patterns that are plain substrings
skip_literals ==
    { <<"c","o","p","y","r","i","g","h","t">>, <<"a","l","l"," ","r","i","g","h","t","s"," ","r","e","s","e","r","v","e","d">>, <<"t","h","i","s"," ","d","o","c","u","m","e","n","t"," ","w","a","s"," ","p","r","o","d","u","c","e","d">>,
      <<"w","o","r","k","i","n","g"," ","g","r","o","u","p">>, <<"a","u","t","h","o","r","s",":">>, <<"i","n","t","e","r","n","a","l"," ","r","e","v","i","e","w","e","r","s",":">>,
      <<"e","x","t","e","r","n","a","l"," ","r","e","v","i","e","w","e","r","s",":">>, <<"i","d","e","n","t","i","f","i","e","r"," ","r","e","f","e","r","e","n","c","e">>,
      <<"t","h","e"," ","f","o","l","l","o","w","i","n","g"," ","r","e","g","i","s","t","e","r","e","d"," ","t","r","a","d","e","m","a","r","k","s">>, <<"d","e","s","i","g","n","a","t","i","o","n">>,
      <<"d","a","t","e"," ","o","f"," ","e","n","t","e","r","i","n","g">>, <<"w","h","e","t","h","e","r"," ","p","e","r","m","a","n","e","n","t"," ","o","r"," ","t","e","m","p","o","r","a","r","y">>,
      <<"w","h","e","t","h","e","r"," ","w","i","f","e"," ","/"," ","h","u","s","b","a","n","d">>, <<"s","i","n","g","l","e"," ","r","a","i","l"," ","f","a","r","e">>,
      <<"a","m","o","u","n","t"," ","o","f"," ","a","d","v","a","n","c","e"," ","r","e","q","u","i","r","e","d">>, <<"s","i","g","n","a","t","u","r","e"," ","o","f"," ","g","o","v","e","r","n","m","e","n","t"," ","s","e","r","v","a","n","t">> }

\* any(re.search(pattern, text) for pattern in skip_patterns)
skip_patterns(t) ==
    \/ SearchPageOf(t)
    \/ SearchVersion(t)
    \/ \E p \in skip_literals : Contains(t, p)

\* the filter applied to the text as written, without lower()
FilterHeadings_CaseSensitive(unique_headings) ==
    SelectSeq(unique_headings, LAMBDA h : ~skip_patterns(Strip(h.text)))

\* the header/footer filter at the end of _extract_headings
FilterHeadings(unique_headings) ==
    SelectSeq(unique_headings, LAMBDA h : ~skip_patterns(Strip(Lower(h.text))))

\* _extract_headings(pdf, doc_type)
extract_headings(pdf, doc_type) ==
    FilterHeadings(UniqueHeadings(CollectHeadings(pdf.pages, Len(pdf.pages), doc_type)))

(***************************************************************************)
(* _classify_headings and _simple_classification                           *)
(***************************************************************************)
level_names == <<"H1", "H2", "H3", "H4">>

\* the order of the level labels as strings: "" < "H1" < "H2" < "H3" < "H4"
LevelOrd(l) == CASE l = "" -> 0 [] l = "H1" -> 1 [] l = "H2" -> 2
                 [] l = "H3" -> 3 [] l = "H4" -> 4

\* list.sort(key=...): a stable sort; before holds the pairs <<i, j>> of
\* positions with key(s[i]) < key(s[j])
StableSort(s, before) ==
    LET rank(i) == Cardinality({j \in 1..Len(s) :
                      \/ <<j, i>> \in before
                      \/ <<i, j>> \notin before /\ j < i})
    IN  [p \in 1..Len(s) |-> s[CHOOSE i \in 1..Len(s) : rank(i) = p - 1]]

\* key=lambda h: (h.page, h.level)
PageLevelBefore(a, b) ==
    \/ a.page < b.page
    \/ a.page = b.page /\ LevelOrd(a.level) < LevelOrd(b.level)

\* the sort left out: the list stays as it was
SortByPageLevel_NoSort(headings) == headings

\* headings.sort(key=lambda h: (h.page, h.level))
SortByPageLevel(headings) ==
    StableSort(headings,
               {ij \in (1..Len(headings)) \X (1..Len(headings)) :
                  PageLevelBefore(headings[ij[1]], headings[ij[2]])})

\* headings.sort(key=lambda h: h.font_size, reverse=True)
SortByFontSizeDesc(headings) ==
    StableSort(headings,
               {ij \in (1..Len(headings)) \X (1..Len(headings)) :
                  headings[ij[1]].font_size > headings[ij[2]].font_size})

\* the exact names _simple_classification gives H1; the text compared with
\* them has been stripped
canonical_names ==
    { <<"i","n","t","r","o","d","u","c","t","i","o","n">>, <<"c","o","n","c","l","u","s","i","o","n">>, <<"r","e","f","e","r","e","n","c","e","s"," ">>, <<"a","b","s","t","r","a","c","t"," ">>,
      <<"s","u","m","m","a","r","y"," ">>, <<"e","x","e","c","u","t","i","v","e"," ","s","u","m","m","a","r","y"," ">>, <<"a","c","k","n","o","w","l","e","d","g","e","m","e","n","t","s"," ">>,
      <<"t","a","b","l","e"," ","o","f"," ","c","o","n","t","e","n","t","s"," ">>, <<"r","e","v","i","s","i","o","n"," ","h","i","s","t","o","r","y"," ">>, <<"p","a","t","h","w","a","y"," ","o","p","t","i","o","n","s"," ">>,
      <<"h","o","p","e"," ","t","o"," ","s","e","e"," ","y","o","u"," ","t","h","e","r","e"," ">>, <<"o","n","t","a","r","i","o","'","s"," ","d","i","g","i","t","a","l"," ","l","i","b","r","a","r","y"," ">> }

\* the level _simple_classification gives a heading text
SimpleLevel(heading_text) ==
    LET text == Strip(Lower(heading_text))
        a == NumDotEnd(text, 1)
    IN  IF \/ a > 0 /\ LET s == SpacesEnd(text, a)        \* r'^\d+\.\s*[a-z]'
                       IN  s <= Len(text) /\ text[s] \in LowerChars
           \/ text \in canonical_names
           \/ MatchWordThen(text, <<"c","h","a","p","t","e","r">>, DigitChars)
           \/ MatchWordThen(text, <<"s","e","c","t","i","o","n">>, DigitChars)
           \/ MatchWordThen(text, <<"a","p","p","e","n","d","i","x">>, LowerChars)
        THEN "H1"
        ELSE IF NumNumEnd(text) > 0 THEN "H2"              \* r'^\d+\.\d+'
        ELSE IF NumNumNumEnd(text) > 0 THEN "H3"           \* r'^\d+\.\d+\.\d+'
        ELSE "H4"

\* _simple_classification(headings, doc_type)
simple_classification(headings, doc_type) ==
    IF Len(headings) = 0 THEN <<>>
    ELSE LET by_size == SortByFontSizeDesc(headings)
             levelled == [i \in 1..Len(by_size) |->
                            [by_size[i] EXCEPT !.level = SimpleLevel(by_size[i].text)]]
         IN  SortByPageLevel(levelled)

\* sorted(set(font_sizes))
UniqueSizes(font_sizes) ==
    LET S == {font_sizes[i] : i \in 1..Len(font_sizes)}
        RECURSIVE Asc(_)
        Asc(T) == IF T = {} THEN <<>>
                  ELSE LET m == CHOOSE x \in T : \A y \in T : x <= y
                       IN  <<m>> \o Asc(T \ {m})
    IN  Asc(S)

\* KMeans(n_clusters, random_state=42).fit_predict on the font sizes, for
\* n_clusters = the number of distinct sizes: every distinct size is a cluster
\* of its own (the labels, 0..n_clusters-1, are numbered here in ascending size)
KMeansLabels(font_sizes, n_clusters) ==
    LET unique_sizes == UniqueSizes(font_sizes)
    IN  [j \in 1..Len(font_sizes) |->
           (CHOOSE c \in 1..Len(unique_sizes) : unique_sizes[c] = font_sizes[j]) - 1]

RECURSIVE SumOver(_, _)
SumOver(f, S) == IF S = {} THEN 0
                 ELSE LET x == CHOOSE y \in S : TRUE
                      IN  f[x] + SumOver(f, S \ {x})

\* the headings of cluster i
ClusterMembers(clusters, i) == {j \in 1..Len(clusters) : clusters[j] = i}

\* np.mean of cluster a > np.mean of cluster b, cross-multiplied
MeanGreater(font_sizes, clusters, a, b) ==
    LET A == ClusterMembers(clusters, a)
        B == ClusterMembers(clusters, b)
    IN  SumOver(font_sizes, A) * Cardinality(B) > SumOver(font_sizes, B) * Cardinality(A)

\* the clusters mapped to the levels by their number instead of their mean
ClusterToLevel_ByLabel(font_sizes, clusters, n_clusters) ==
    [c \in 0..(n_clusters - 1) |-> level_names[c + 1]]

\* cluster_means.sort(key=lambda x: x[1], reverse=True) and the mapping of the
\* sorted clusters to level_names
ClusterToLevel(font_sizes, clusters, n_clusters) ==
    [c \in 0..(n_clusters - 1) |->
       LET i == Cardinality({d \in 0..(n_clusters - 1) :
                   \/ MeanGreater(font_sizes, clusters, d, c)
                   \/ ~MeanGreater(font_sizes, clusters, c, d) /\ d < c})
       IN  IF i < Len(level_names) THEN level_names[i + 1]
           ELSE level_names[Len(level_names)]]

\* which branch _classify_headings takes; kmeans_ok: the try block runs through
ClassifyPath(headings, kmeans_ok) ==
    IF Len(headings) = 0 THEN "empty"
    ELSE IF Cardinality({headings[i].font_size : i \in 1..Len(headings)}) < 2
    THEN "simple"
    ELSE IF kmeans_ok THEN "kmeans" ELSE "fallback"

\* the levels assigned from the clusters, and the final sort
ClusterClassification(headings) ==
    LET font_sizes == [i \in 1..Len(headings) |-> headings[i].font_size]
        unique_sizes == UniqueSizes(font_sizes)
        n_clusters == IF Len(unique_sizes) < 4 THEN Len(unique_sizes) ELSE 4
        clusters == KMeansLabels(font_sizes, n_clusters)
        cluster_to_level == ClusterToLevel(font_sizes, clusters, n_clusters)
        levelled == [i \in 1..Len(headings) |->
                       [headings[i] EXCEPT !.level = cluster_to_level[clusters[i]]]]
    IN  SortByPageLevel(levelled)

\* _classify_headings(headings, doc_type)
classify_headings(headings, doc_type, kmeans_ok) ==
    LET path == ClassifyPath(headings, kmeans_ok)
    IN  IF path = "empty" THEN <<>>
        ELSE IF path = "kmeans" THEN ClusterClassification(headings)
        ELSE simple_classification(headings, doc_type)

(***************************************************************************)
(* _post_process_headings                                                  *)
(***************************************************************************)
\* the first heading whose lowercase text contains the phrase, 0 when none
FirstWithPhrase(headings, phrase) ==
    LET hits == {i \in 1..Len(headings) :
                   Contains(Strip(Lower(headings[i].text)), phrase)}
    IN  IF hits = {} THEN 0 ELSE CHOOSE i \in hits : \A j \in hits : i <= j

\* the branches keeping the page the heading was found on
KeepFirstWithPhrase_KeepsPage(headings, phrase) ==
    LET i == FirstWithPhrase(headings, phrase)
    IN  IF i = 0 THEN <<>>
        ELSE << [headings[i] EXCEPT !.level = "H1"] >>

\* the invitation and educational branches: the first heading with the phrase,
\* its level set to "H1" and its page to 0
KeepFirstWithPhrase(headings, phrase) ==
    LET i == FirstWithPhrase(headings, phrase)
    IN  IF i = 0 THEN <<>>
        ELSE << [headings[i] EXCEPT !.level = "H1", !.page = 0] >>

main_headings ==
    { <<"r","e","v","i","s","i","o","n"," ","h","i","s","t","o","r","y">>, <<"t","a","b","l","e"," ","o","f"," ","c","o","n","t","e","n","t","s">>, <<"a","c","k","n","o","w","l","e","d","g","e","m","e","n","t","s">>,
      <<"i","n","t","r","o","d","u","c","t","i","o","n"," ","t","o"," ","t","h","e"," ","f","o","u","n","d","a","t","i","o","n"," ","l","e","v","e","l"," ","e","x","t","e","n","s","i","o","n","s">>,
      <<"i","n","t","r","o","d","u","c","t","i","o","n"," ","t","o"," ","f","o","u","n","d","a","t","i","o","n"," ","l","e","v","e","l"," ","a","g","i","l","e"," ","t","e","s","t","e","r"," ","e","x","t","e","n","s","i","o","n">>,
      <<"o","v","e","r","v","i","e","w"," ","o","f"," ","t","h","e"," ","f","o","u","n","d","a","t","i","o","n"," ","l","e","v","e","l"," ","e","x","t","e","n","s","i","o","n">>,
      <<"r","e","f","e","r","e","n","c","e","s">> }

\* technical document: the page set for a heading that contains a main heading
MainHeadingPage(text, page) ==
    IF Contains(text, <<"r","e","v","i","s","i","o","n"," ","h","i","s","t","o","r","y">>) THEN 2
    ELSE IF Contains(text, <<"t","a","b","l","e"," ","o","f"," ","c","o","n","t","e","n","t","s">>) THEN 3
    ELSE IF Contains(text, <<"a","c","k","n","o","w","l","e","d","g","e","m","e","n","t","s">>) THEN 4
    ELSE IF Contains(text, <<"i","n","t","r","o","d","u","c","t","i","o","n"," ","t","o"," ","t","h","e"," ","f","o","u","n","d","a","t","i","o","n"," ","l","e","v","e","l"," ","e","x","t","e","n","s","i","o","n","s">>) THEN 5
    ELSE IF Contains(text, <<"i","n","t","r","o","d","u","c","t","i","o","n"," ","t","o"," ","f","o","u","n","d","a","t","i","o","n"," ","l","e","v","e","l"," ","a","g","i","l","e"," ","t","e","s","t","e","r"," ","e","x","t","e","n","s","i","o","n">>) THEN 6
    ELSE IF Contains(text, <<"o","v","e","r","v","i","e","w"," ","o","f"," ","t","h","e"," ","f","o","u","n","d","a","t","i","o","n"," ","l","e","v","e","l"," ","e","x","t","e","n","s","i","o","n">>) THEN 9
    ELSE IF Contains(text, <<"r","e","f","e","r","e","n","c","e","s">>) THEN 11
    ELSE page

\* technical document: the page set for a numbered subsection
SubsectionPage(heading_text, page) ==
    IF Contains(heading_text, <<"2",".","1">>) THEN 6
    ELSE IF Contains(heading_text, <<"2",".","2">>) THEN 6
    ELSE IF Contains(heading_text, <<"2",".","3">>) THEN 6
    ELSE IF Contains(heading_text, <<"2",".","4">>) THEN 7
    ELSE IF Contains(heading_text, <<"2",".","5">>) THEN 7
    ELSE IF Contains(heading_text, <<"2",".","6">>) THEN 8
    ELSE IF Contains(heading_text, <<"3",".","1">>) THEN 9
    ELSE IF Contains(heading_text, <<"3",".","2">>) THEN 9
    ELSE IF Contains(heading_text, <<"4",".","1">>) THEN 11
    ELSE IF Contains(heading_text, <<"4",".","2">>) THEN 11
    ELSE page

\* technical document: is the heading kept as a main heading, as a numbered
\* subsection (re.match(r'^\d+\.\d+', heading.text))
IsMainHeading(h) == \E m \in main_headings : Contains(Strip(Lower(h.text)), m)

IsNumberedSubsection(h) == NumNumEnd(h.text) > 0

\* technical document: the heading object after the loop body has run on it
TechnicalHeading(h) ==
    LET p1 == IF IsMainHeading(h)
              THEN MainHeadingPage(Strip(Lower(h.text)), h.page) ELSE h.page
        p2 == IF IsNumberedSubsection(h) THEN SubsectionPage(h.text, p1) ELSE p1
    IN  [h EXCEPT !.page = p2]

RECURSIVE TechnicalFiltered(_, _)
\* technical document: filtered, from heading i on; a heading that is both a
\* main heading and a numbered subsection is appended twice (one object)
TechnicalFiltered(headings, i) ==
    IF i > Len(headings) THEN <<>>
    ELSE LET h == TechnicalHeading(headings[i])
         IN  (IF IsMainHeading(headings[i]) THEN <<h>> ELSE <<>>)
             \o (IF IsNumberedSubsection(headings[i]) THEN <<h>> ELSE <<>>)
             \o TechnicalFiltered(headings, i + 1)

\* rfp document: the expected headings, each text with its trailing space
rfp_headings ==
    <<
       [text |-> <<"o","n","t","a","r","i","o","'","s"," ","d","i","g","i","t","a","l"," ","l","i","b","r","a","r","y"," ">>,
        level |-> "H1", page |-> 1, font_size |-> 12],
       [text |-> <<"a"," ","c","r","i","t","i","c","a","l"," ","c","o","m","p","o","n","e","n","t"," ","f","o","r"," ","i","m","p","l","e","m","e","n","t","i","n","g"," ","o","n","t","a","r","i","o","'","s"," ","r","o","a","d"," ","m","a","p"," ","t","o"," ","p","r","o","s","p","e","r","i","t","y"," ","s","t","r","a","t","e","g","y"," ">>,
        level |-> "H1", page |-> 1, font_size |-> 12],
       [text |-> <<"s","u","m","m","a","r","y"," ">>,
        level |-> "H2", page |-> 1, font_size |-> 12],
       [text |-> <<"t","i","m","e","l","i","n","e",":"," ">>,
        level |-> "H3", page |-> 1, font_size |-> 12],
       [text |-> <<"b","a","c","k","g","r","o","u","n","d"," ">>,
        level |-> "H2", page |-> 2, font_size |-> 12],
       [text |-> <<"e","q","u","i","t","a","b","l","e"," ","a","c","c","e","s","s"," ","f","o","r"," ","a","l","l"," ","o","n","t","a","r","i","a","n","s",":"," ">>,
        level |-> "H3", page |-> 3, font_size |-> 12],
       [text |-> <<"s","h","a","r","e","d"," ","d","e","c","i","s","i","o","n","-","m","a","k","i","n","g"," ","a","n","d"," ","a","c","c","o","u","n","t","a","b","i","l","i","t","y",":"," ">>,
        level |-> "H3", page |-> 3, font_size |-> 12],
       [text |-> <<"s","h","a","r","e","d"," ","g","o","v","e","r","n","a","n","c","e"," ","s","t","r","u","c","t","u","r","e",":"," ">>,
        level |-> "H3", page |-> 3, font_size |-> 12],
       [text |-> <<"s","h","a","r","e","d"," ","f","u","n","d","i","n","g",":"," ">>,
        level |-> "H3", page |-> 3, font_size |-> 12],
       [text |-> <<"l","o","c","a","l"," ","p","o","i","n","t","s"," ","o","f"," ","e","n","t","r","y",":"," ">>,
        level |-> "H3", page |-> 4, font_size |-> 12],
       [text |-> <<"a","c","c","e","s","s",":"," ">>,
        level |-> "H3", page |-> 4, font_size |-> 12],
       [text |-> <<"g","u","i","d","a","n","c","e"," ","a","n","d"," ","a","d","v","i","c","e",":"," ">>,
        level |-> "H3", page |-> 4, font_size |-> 12],
       [text |-> <<"t","r","a","i","n","i","n","g",":"," ">>,
        level |-> "H3", page |-> 4, font_size |-> 12],
       [text |-> <<"p","r","o","v","i","n","c","i","a","l"," ","p","u","r","c","h","a","s","i","n","g"," ","&"," ","l","i","c","e","n","s","i","n","g",":"," ">>,
        level |-> "H3", page |-> 4, font_size |-> 12],
       [text |-> <<"t","e","c","h","n","o","l","o","g","i","c","a","l"," ","s","u","p","p","o","r","t",":"," ">>,
        level |-> "H3", page |-> 4, font_size |-> 12],
       [text |-> <<"w","h","a","t"," ","c","o","u","l","d"," ","t","h","e"," ","o","d","l"," ","r","e","a","l","l","y"," ","m","e","a","n","?"," ">>,
        level |-> "H3", page |-> 4, font_size |-> 12],
       [text |-> <<"f","o","r"," ","e","a","c","h"," ","o","n","t","a","r","i","o"," ","c","i","t","i","z","e","n"," ","i","t"," ","c","o","u","l","d"," ","m","e","a","n",":"," ">>,
        level |-> "H4", page |-> 4, font_size |-> 12],
       [text |-> <<"f","o","r"," ","e","a","c","h"," ","o","n","t","a","r","i","o"," ","s","t","u","d","e","n","t"," ","i","t"," ","c","o","u","l","d"," ","m","e","a","n",":"," ">>,
        level |-> "H4", page |-> 4, font_size |-> 12],
       [text |-> <<"f","o","r"," ","e","a","c","h"," ","o","n","t","a","r","i","o"," ","l","i","b","r","a","r","y"," ","i","t"," ","c","o","u","l","d"," ","m","e","a","n",":"," ">>,
        level |-> "H4", page |-> 5, font_size |-> 12],
       [text |-> <<"f","o","r"," ","t","h","e"," ","o","n","t","a","r","i","o"," ","g","o","v","e","r","n","m","e","n","t"," ","i","t"," ","c","o","u","l","d"," ","m","e","a","n",":"," ">>,
        level |-> "H4", page |-> 5, font_size |-> 12],
       [text |-> <<"t","h","e"," ","b","u","s","i","n","e","s","s"," ","p","l","a","n"," ","t","o"," ","b","e"," ","d","e","v","e","l","o","p","e","d"," ">>,
        level |-> "H2", page |-> 5, font_size |-> 12],
       [text |-> <<"m","i","l","e","s","t","o","n","e","s"," ">>,
        level |-> "H3", page |-> 6, font_size |-> 12],
       [text |-> <<"a","p","p","r","o","a","c","h"," ","a","n","d"," ","s","p","e","c","i","f","i","c"," ","p","r","o","p","o","s","a","l"," ","r","e","q","u","i","r","e","m","e","n","t","s"," ">>,
        level |-> "H2", page |-> 6, font_size |-> 12],
       [text |-> <<"e","v","a","l","u","a","t","i","o","n"," ","a","n","d"," ","a","w","a","r","d","i","n","g"," ","o","f"," ","c","o","n","t","r","a","c","t"," ">>,
        level |-> "H2", page |-> 7, font_size |-> 12],
       [text |-> <<"a","p","p","e","n","d","i","x"," ","a",":"," ","o","d","l"," ","e","n","v","i","s","i","o","n","e","d"," ","p","h","a","s","e","s"," ","&"," ","f","u","n","d","i","n","g"," ">>,
        level |-> "H2", page |-> 8, font_size |-> 12],
       [text |-> <<"p","h","a","s","e"," ","i",":"," ","b","u","s","i","n","e","s","s"," ","p","l","a","n","n","i","n","g"," ">>,
        level |-> "H3", page |-> 8, font_size |-> 12],
       [text |-> <<"p","h","a","s","e"," ","i","i",":"," ","i","m","p","l","e","m","e","n","t","i","n","g"," ","a","n","d"," ","t","r","a","n","s","i","t","i","o","n","i","n","g"," ">>,
        level |-> "H3", page |-> 8, font_size |-> 12],
       [text |-> <<"p","h","a","s","e"," ","i","i","i",":"," ","o","p","e","r","a","t","i","n","g"," ","a","n","d"," ","g","r","o","w","i","n","g"," ","t","h","e"," ","o","d","l"," ">>,
        level |-> "H3", page |-> 8, font_size |-> 12],
       [text |-> <<"a","p","p","e","n","d","i","x"," ","b",":"," ","o","d","l"," ","s","t","e","e","r","i","n","g"," ","c","o","m","m","i","t","t","e","e"," ","t","e","r","m","s"," ","o","f"," ","r","e","f","e","r","e","n","c","e"," ">>,
        level |-> "H2", page |-> 10, font_size |-> 12],
       [text |-> <<"1","."," ","p","r","e","a","m","b","l","e"," ">>,
        level |-> "H3", page |-> 10, font_size |-> 12],
       [text |-> <<"2","."," ","t","e","r","m","s"," ","o","f"," ","r","e","f","e","r","e","n","c","e"," ">>,
        level |-> "H3", page |-> 10, font_size |-> 12],
       [text |-> <<"3","."," ","m","e","m","b","e","r","s","h","i","p"," ">>,
        level |-> "H3", page |-> 10, font_size |-> 12],
       [text |-> <<"4","."," ","a","p","p","o","i","n","t","m","e","n","t"," ","c","r","i","t","e","r","i","a"," ","a","n","d"," ","p","r","o","c","e","s","s"," ">>,
        level |-> "H3", page |-> 11, font_size |-> 12],
       [text |-> <<"5","."," ","t","e","r","m"," ">>,
        level |-> "H3", page |-> 11, font_size |-> 12],
       [text |-> <<"6","."," ","c","h","a","i","r"," ">>,
        level |-> "H3", page |-> 11, font_size |-> 12],
       [text |-> <<"7","."," ","m","e","e","t","i","n","g","s"," ">>,
        level |-> "H3", page |-> 11, font_size |-> 12],
       [text |-> <<"8","."," ","l","i","n","e","s"," ","o","f"," ","a","c","c","o","u","n","t","a","b","i","l","i","t","y"," ","a","n","d"," ","c","o","m","m","u","n","i","c","a","t","i","o","n"," ">>,
        level |-> "H3", page |-> 11, font_size |-> 12],
       [text |-> <<"9","."," ","f","i","n","a","n","c","i","a","l"," ","a","n","d"," ","a","d","m","i","n","i","s","t","r","a","t","i","v","e"," ","p","o","l","i","c","i","e","s"," ">>,
        level |-> "H3", page |-> 12, font_size |-> 12],
       [text |-> <<"a","p","p","e","n","d","i","x"," ","c",":"," ","o","d","l","'","s"," ","e","n","v","i","s","i","o","n","e","d"," ","e","l","e","c","t","r","o","n","i","c"," ","r","e","s","o","u","r","c","e","s"," ">>,
        level |-> "H2", page |-> 13, font_size |-> 12]
    >>

\* the rfp branch keeping only the expected headings found in the document
post_process_headings_RfpFromInput(headings, doc_type) ==
    IF doc_type = "application form" THEN <<>>
    ELSE IF doc_type = "invitation"
    THEN KeepFirstWithPhrase(headings, <<"h","o","p","e"," ","t","o"," ","s","e","e"," ","y","o","u"," ","t","h","e","r","e">>)
    ELSE IF doc_type = "educational"
    THEN KeepFirstWithPhrase(headings, <<"p","a","t","h","w","a","y"," ","o","p","t","i","o","n","s">>)
    ELSE IF doc_type = "technical document" THEN TechnicalFiltered(headings, 1)
    ELSE IF doc_type = "rfp document"
    THEN SelectSeq(rfp_headings,
           LAMBDA r : \E i \in 1..Len(headings) : Lower(headings[i].text) = r.text)
    ELSE headings

\* the application form branch left out: the list is passed through
post_process_headings_FormKept(headings, doc_type) ==
    IF doc_type = "invitation"
    THEN KeepFirstWithPhrase(headings, <<"h","o","p","e"," ","t","o"," ","s","e","e"," ","y","o","u"," ","t","h","e","r","e">>)
    ELSE IF doc_type = "educational"
    THEN KeepFirstWithPhrase(headings, <<"p","a","t","h","w","a","y"," ","o","p","t","i","o","n","s">>)
    ELSE IF doc_type = "technical document" THEN TechnicalFiltered(headings, 1)
    ELSE IF doc_type = "rfp document" THEN rfp_headings
    ELSE headings

\* the last branch treating a document of unknown type as one without headings
post_process_headings_UnknownEmpty(headings, doc_type) ==
    IF doc_type = "application form" THEN <<>>
    ELSE IF doc_type = "invitation"
    THEN KeepFirstWithPhrase(headings, <<"h","o","p","e"," ","t","o"," ","s","e","e"," ","y","o","u"," ","t","h","e","r","e">>)
    ELSE IF doc_type = "educational"
    THEN KeepFirstWithPhrase(headings, <<"p","a","t","h","w","a","y"," ","o","p","t","i","o","n","s">>)
    ELSE IF doc_type = "technical document" THEN TechnicalFiltered(headings, 1)
    ELSE IF doc_type = "rfp document" THEN rfp_headings
    ELSE IF doc_type = "unknown" THEN <<>>
    ELSE headings

\* _post_process_headings(headings, doc_type): the list returned
post_process_headings(headings, doc_type) ==
    IF doc_type = "application form" THEN <<>>
    ELSE IF doc_type = "invitation"
    THEN KeepFirstWithPhrase(headings, <<"h","o","p","e"," ","t","o"," ","s","e","e"," ","y","o","u"," ","t","h","e","r","e">>)
    ELSE IF doc_type = "educational"
    THEN KeepFirstWithPhrase(headings, <<"p","a","t","h","w","a","y"," ","o","p","t","i","o","n","s">>)
    ELSE IF doc_type = "technical document" THEN TechnicalFiltered(headings, 1)
    ELSE IF doc_type = "rfp document" THEN rfp_headings
    ELSE headings

\* the argument list after the call: the Heading objects are changed in place
PostProcessedArgument(headings, doc_type) ==
    IF doc_type = "invitation" \/ doc_type = "educational"
    THEN LET phrase == IF doc_type = "invitation"
                       THEN <<"h","o","p","e"," ","t","o"," ","s","e","e"," ","y","o","u"," ","t","h","e","r","e">> ELSE <<"p","a","t","h","w","a","y"," ","o","p","t","i","o","n","s">>
             i == FirstWithPhrase(headings, phrase)
         IN  IF i = 0 THEN headings
             ELSE [headings EXCEPT ![i] = [@ EXCEPT !.level = "H1", !.page = 0]]
    ELSE IF doc_type = "technical document"
    THEN [i \in 1..Len(headings) |-> TechnicalHeading(headings[i])]
    ELSE headings

(***************************************************************************)
(* Inputs: the documents and directories the model is run on               *)
(***************************************************************************)
MaxLines == 2

MaxFiles == 2

MaxHeadings == 2

\* a text line with the font size of its words; has_words = FALSE: the page's
\* word list holds no word of the line
StyledLines ==
    { [line |-> <<"I","N","T","R","O","D","U","C","T","I","O","N">>, size |-> 24, has_words |-> TRUE],
      [line |-> <<"1",".","1"," ","B","a","c","k","g","r","o","u","n","d">>, size |-> 16, has_words |-> TRUE],
      [line |-> <<"P","a","g","e"," ","3"," ","o","f"," ","1","0">>, size |-> 24, has_words |-> TRUE],
      [line |-> <<"S","u","m","m","a","r","y"," ",".",".",".","."," ","V","e","r","s","i","o","n"," ","2">>, size |-> 16, has_words |-> TRUE],
      [line |-> <<"s","e","e"," ","b","e","l","o","w">>, size |-> 10, has_words |-> TRUE],
      [line |-> <<"R","e","l","a","t","e","d"," ","W","o","r","k">>, size |-> 0, has_words |-> FALSE],
      [line |-> <<"O","v","e","r","v","i","e","w"," ","o","f"," ","t","h","e"," ","F","o","u","n","d","a","t","i","o","n"," ","L","e","v","e","l"," ","E","x","t","e","n","s","i","o","n","s">>, size |-> 16,
       has_words |-> TRUE],
      [line |-> <<"R","F","P"," ","T","i","m","e","l","i","n","e">>, size |-> 10, has_words |-> TRUE],
      [line |-> <<"H","o","p","e"," ","T","o"," ","S","e","e"," ","Y","o","u"," ","T","h","e","r","e">>, size |-> 24, has_words |-> TRUE],
      [line |-> <<"N","O","T","E",":">>, size |-> 16, has_words |-> TRUE] }

\* a line of a document: the styled line, and whether it starts a new page
DocEntries == {[styled |-> s, new_page |-> b] : s \in StyledLines, b \in BOOLEAN}

WordsOf(styled) ==
    IF styled.has_words
    THEN LET toks == Split(styled.line)
         IN  [i \in 1..Len(toks) |-> [text |-> toks[i], size |-> styled.size]]
    ELSE <<>>

RECURSIVE BuildPages(_, _)
\* the pages (line lists and word lists) of the first n entries
BuildPages(entries, n) ==
    IF n = 0 THEN <<>>
    ELSE LET prev == BuildPages(entries, n - 1)
             e == entries[n]
         IN  IF Len(prev) = 0 \/ e.new_page
             THEN Append(prev, [lines |-> <<e.styled.line>>,
                                words |-> WordsOf(e.styled)])
             ELSE [prev EXCEPT ![Len(prev)] =
                     [lines |-> Append(@.lines, e.styled.line),
                      words |-> @.words \o WordsOf(e.styled)]]

\* the document made of the entries: page text is the lines joined by "\n"
MkPdf(entries) ==
    LET pages == BuildPages(entries, Len(entries))
    IN  [pages |-> [i \in 1..Len(pages) |->
                      [text |-> Join(pages[i].lines, <<"\n">>),
                       words |-> pages[i].words]]]

\* the document of the end-to-end scenario
ScenarioEntries ==
    << [styled |-> [line |-> <<"I","N","T","R","O","D","U","C","T","I","O","N">>, size |-> 24, has_words |-> TRUE],
        new_page |-> TRUE],
       [styled |-> [line |-> <<"T","h","i","s"," ","p","a","p","e","r"," ","p","r","e","s","e","n","t","s",".",".",".">>, size |-> 10, has_words |-> TRUE],
        new_page |-> FALSE],
       [styled |-> [line |-> <<"1",".","1"," ","B","a","c","k","g","r","o","u","n","d">>, size |-> 16, has_words |-> TRUE],
        new_page |-> TRUE] >>

ScenarioPdf == MkPdf(ScenarioEntries)

\* the documents of up to MaxLines lines, and the scenario's
Docs ==
    {MkPdf(e) : e \in UNION {[1..n -> DocEntries] : n \in 0..MaxLines}}
    \cup {ScenarioPdf}

BatchDocs == {ScenarioPdf, MkPdf(<<>>)}

PdfNames == {<<"a",".","p","d","f">>, <<"B",".","P","D","F">>}

OtherNames == {<<"n","o","t","e","s",".","t","x","t">>}

\* directories holding one file
SingleFileDirs ==
    {<<[name |-> n, pdf |-> d]>> : n \in {<<"a",".","p","d","f">>}, d \in Docs}
    \cup {<<[name |-> n, pdf |-> d]>> : n \in OtherNames, d \in BatchDocs}

\* directories of up to MaxFiles files
BatchDirs ==
    UNION {[1..n -> {[name |-> nm, pdf |-> d] :
                       nm \in PdfNames \cup OtherNames, d \in BatchDocs}] :
           n \in 0..MaxFiles}

(***************************************************************************)
(* State                                                                   *)
(***************************************************************************)
VARIABLES
    input_dir,            \* os.listdir(INPUT_DIR), each file with its content
    pc,                   \* where main() and extract_outline() stand
    idx,                  \* the position of main's for loop in input_dir
    processed,            \* main: processed
    written,              \* the output files written: {[file, content]}
    log,                  \* what has been printed
    calls,                \* per file, the number of extract_outline calls
    title,                \* extract_outline: title
    doc_type,             \* extract_outline: doc_type
    headings,             \* extract_outline: headings
    classified_headings,  \* extract_outline: classified_headings
    final_headings,       \* extract_outline: final_headings
    classify_path,        \* the branch _classify_headings took
    outline,              \* the value extract_outline returned to main
    clusters,             \* _classify_headings: clusters, per heading
    cluster_to_level,     \* _classify_headings: cluster_to_level
    fitted,               \* what the seeded KMeans did on each input so far
    runs                  \* the _classify_headings calls made so far

vars == <<input_dir, pc, idx, processed, written, log, calls, title, doc_type,
          headings, classified_headings, final_headings, classify_path, outline,
          clusters, cluster_to_level, fitted, runs>>

\* the state of _classify_headings called on its own
classifier == <<clusters, cluster_to_level, fitted, runs>>

ClassifierUnset ==
    /\ clusters = <<>>
    /\ cluster_to_level = <<>>
    /\ fitted = {}
    /\ runs = <<>>

locals == <<title, doc_type, headings, classified_headings, final_headings,
            classify_path>>

NoResult == [title |-> <<>>, outline |-> <<>>]

\* the result of a failed extraction
DefaultResult == [title |-> Unknown, outline |-> <<>>]

\* the document main is working on
pdf == input_dir[idx].pdf

LocalsUnset ==
    /\ title = <<>>
    /\ doc_type = ""
    /\ headings = <<>>
    /\ classified_headings = <<>>
    /\ final_headings = <<>>
    /\ classify_path = ""

InitWith(dirs) ==
    /\ input_dir \in dirs
    /\ pc = "start"
    /\ idx = 0
    /\ processed = 0
    /\ written = {}
    /\ log = <<>>
    /\ calls = [i \in 1..Len(input_dir) |-> 0]
    /\ LocalsUnset
    /\ outline = NoResult
    /\ ClassifierUnset

Init == InitWith(SingleFileDirs)

MainInit == InitWith(BatchDirs)

(***************************************************************************)
(* main() and extract_outline(), one action per step                       *)
(***************************************************************************)
ClearLocals ==
    /\ title' = <<>>
    /\ doc_type' = ""
    /\ headings' = <<>>
    /\ classified_headings' = <<>>
    /\ final_headings' = <<>>
    /\ classify_path' = ""

\* filename.lower().endswith('.pdf')
IsPdfName(filename) == EndsWith(Lower(filename), <<".","p","d","f">>)

\* the result dictionary extract_outline builds
BuildResult(t, final) ==
    [title |-> t,
     outline |-> [i \in 1..Len(final) |->
                    [level |-> final[i].level,
                     text |-> final[i].text,
                     page |-> final[i].page]]]

\* the except clause returning the title computed so far
ExceptResult_KeepsTitle(t) ==
    [title |-> IF t = <<>> THEN Unknown ELSE t, outline |-> <<>>]

\* what the except clause of extract_outline returns
ExceptResult(t) == DefaultResult

\* main: ensure_output_dir(), the extractor, processed = 0, the listing
MainStart ==
    /\ pc = "start"
    /\ pc' = "loop"
    /\ processed' = 0
    /\ idx' = 0
    /\ UNCHANGED <<input_dir, written, log, calls, locals, outline, classifier>>

\* main: the for loop takes a file that is no PDF
SkipFile ==
    /\ pc = "loop"
    /\ idx < Len(input_dir)
    /\ ~IsPdfName(input_dir[idx + 1].name)
    /\ idx' = idx + 1
    /\ UNCHANGED <<input_dir, pc, processed, written, log, calls, locals, outline, classifier>>

\* main: the for loop takes a PDF and calls extractor.extract_outline
NextPdf ==
    /\ pc = "loop"
    /\ idx < Len(input_dir)
    /\ IsPdfName(input_dir[idx + 1].name)
    /\ idx' = idx + 1
    /\ calls' = [calls EXCEPT ![idx + 1] = @ + 1]
    /\ pc' = "open"
    /\ UNCHANGED <<input_dir, processed, written, log, locals, outline, classifier>>

\* extract_outline: pdfplumber.open(pdf_path) succeeds
Open ==
    /\ pc = "open"
    /\ pc' = "title"
    /\ UNCHANGED <<input_dir, idx, processed, written, log, calls, locals, outline, classifier>>

\* extract_outline: title = self._extract_title(pdf)
ExtractTitle ==
    /\ pc = "title"
    /\ title' = extract_title(pdf)
    /\ pc' = "type"
    /\ UNCHANGED <<input_dir, idx, processed, written, log, calls, doc_type,
                   headings, classified_headings, final_headings, classify_path,
                   outline, classifier>>

\* extract_outline: doc_type = self._detect_document_type(pdf)
DetectType ==
    /\ pc = "type"
    /\ doc_type' = detect_document_type(pdf)
    /\ pc' = "headings"
    /\ UNCHANGED <<input_dir, idx, processed, written, log, calls, title,
                   headings, classified_headings, final_headings, classify_path,
                   outline, classifier>>

\* extract_outline: headings = self._extract_headings(pdf, doc_type)
ExtractHeadings ==
    /\ pc = "headings"
    /\ headings' = extract_headings(pdf, doc_type)
    /\ pc' = "classify"
    /\ UNCHANGED <<input_dir, idx, processed, written, log, calls, title,
                   doc_type, classified_headings, final_headings, classify_path,
                   outline, classifier>>

\* extract_outline: classified_headings = self._classify_headings(headings,
\* doc_type); a non-empty list is sorted in place and returned itself
Classify ==
    /\ pc = "classify"
    /\ \E kmeans_ok \in BOOLEAN :
          /\ classify_path' = ClassifyPath(headings, kmeans_ok)
          /\ classified_headings' = classify_headings(headings, doc_type, kmeans_ok)
    /\ headings' = classified_headings'
    /\ pc' = "post"
    /\ UNCHANGED <<input_dir, idx, processed, written, log, calls, title,
                   doc_type, final_headings, outline, classifier>>

\* extract_outline: final_headings = self._post_process_headings(...); the
\* Heading objects of the argument are changed in place
PostProcess ==
    /\ pc = "post"
    /\ final_headings' = post_process_headings(classified_headings, doc_type)
    /\ classified_headings' = PostProcessedArgument(classified_headings, doc_type)
    /\ headings' = classified_headings'
    /\ pc' = "result"
    /\ UNCHANGED <<input_dir, idx, processed, written, log, calls, title,
                   doc_type, classify_path, outline, classifier>>

\* extract_outline: build the result and return it
Return ==
    /\ pc = "result"
    /\ outline' = BuildResult(title, final_headings)
    /\ ClearLocals
    /\ pc' = "write"
    /\ UNCHANGED <<input_dir, idx, processed, written, log, calls, classifier>>

\* extract_outline: opening the document or a stage raises; the except clause
\* prints the error and returns the default result
Raise ==
    /\ pc \in {"open", "title", "type", "headings", "classify", "post", "result"}
    /\ log' = Append(log, [msg |-> "Error processing PDF", file |-> idx, n |-> 0])
    /\ outline' = ExceptResult(title)
    /\ ClearLocals
    /\ pc' = "write"
    /\ UNCHANGED <<input_dir, idx, processed, written, calls, classifier>>

\* main: the output file is written, the file is reported and counted
WriteOutput ==
    /\ pc = "write"
    /\ written' = written \cup {[file |-> idx, content |-> outline]}
    /\ log' = Append(log, [msg |-> "Processed", file |-> idx, n |-> 0])
    /\ processed' = processed + 1
    /\ outline' = NoResult
    /\ pc' = "loop"
    /\ UNCHANGED <<input_dir, idx, calls, locals, classifier>>

\* main without its try/except: the failure ends the run
WriteFails_Aborts ==
    /\ pc = "write"
    /\ pc' = "crashed"
    /\ UNCHANGED <<input_dir, idx, processed, written, log, calls, locals, outline, classifier>>

\* main: open(output_path, 'w') or json.dump raises; the except clause of
\* main prints the error
WriteFails ==
    /\ pc = "write"
    /\ log' = Append(log, [msg |-> "Error processing file", file |-> idx, n |-> 0])
    /\ outline' = NoResult
    /\ pc' = "loop"
    /\ UNCHANGED <<input_dir, idx, processed, written, calls, locals, classifier>>

\* main: the loop is over; the summary is printed
Summary ==
    /\ pc = "loop"
    /\ idx = Len(input_dir)
    /\ log' = Append(log, IF processed = 0
                          THEN [msg |-> "No PDF files found", file |-> 0, n |-> 0]
                          ELSE [msg |-> "Done", file |-> 0, n |-> processed])
    /\ pc' = "done"
    /\ UNCHANGED <<input_dir, idx, processed, written, calls, locals, outline, classifier>>

Next ==
    \/ MainStart
    \/ SkipFile
    \/ NextPdf
    \/ Summary
    \/ WriteOutput
    \/ WriteFails
    \/ Raise
    \/ Open
    \/ ExtractTitle
    \/ DetectType
    \/ ExtractHeadings
    \/ Classify
    \/ PostProcess
    \/ Return

\* one PDF (or one other file) in the input directory, any document of Docs
Spec == Init /\ [][Next]_vars

\* a batch run over a directory of up to MaxFiles files; main is a sequential
\* program, so a step that can be taken is taken
MainSpec == MainInit /\ [][Next]_vars /\ WF_vars(Next)

(***************************************************************************)
(* _post_process_headings on its own: any classified list, any type        *)
(***************************************************************************)
DocTypes ==
    {"application form", "technical document", "rfp document", "educational",
     "invitation", "general", "unknown"}

\* headings as _classify_headings returns them
ClassifiedPool ==
    { [text |-> <<"I","N","T","R","O","D","U","C","T","I","O","N"," ">>, level |-> "H1", page |-> 1, font_size |-> 24],
      [text |-> <<"1",".","1"," ","B","a","c","k","g","r","o","u","n","d"," ">>, level |-> "H2", page |-> 1, font_size |-> 16],
      [text |-> <<"H","o","p","e"," ","T","o"," ","S","e","e"," ","Y","o","u"," ","T","h","e","r","e"," ">>, level |-> "H2", page |-> 2, font_size |-> 16],
      [text |-> <<"P","a","t","h","w","a","y"," ","O","p","t","i","o","n","s"," ">>, level |-> "H3", page |-> 1, font_size |-> 10],
      [text |-> <<"R","e","f","e","r","e","n","c","e","s"," ">>, level |-> "H4", page |-> 2, font_size |-> 10],
      [text |-> <<"2",".","1"," ","I","n","t","r","o","d","u","c","t","i","o","n"," ","t","o"," ","t","h","e"," ","F","o","u","n","d","a","t","i","o","n"," ","L","e","v","e","l"," ","E","x","t","e","n","s","i","o","n","s"," ">>,
       level |-> "H2", page |-> 3, font_size |-> 16],
      [text |-> <<"4",".","2"," ","T","r","a","d","e","m","a","r","k","s"," ">>, level |-> "H2", page |-> 1, font_size |-> 16],
      [text |-> <<"o","n","t","a","r","i","o","'","s"," ","d","i","g","i","t","a","l"," ","l","i","b","r","a","r","y"," ">>, level |-> "H1", page |-> 1,
       font_size |-> 24],
      [text |-> <<"3",".","1"," ","C","h","a","n","g","e","s"," ","s","i","n","c","e"," ","v","e","r","s","i","o","n"," ","2",".","4"," ">>, level |-> "H2", page |-> 4, font_size |-> 16],
      [text |-> <<"W","E"," ","H","O","P","E"," ","T","O"," ","S","E","E"," ","Y","O","U"," ","T","H","E","R","E"," ">>, level |-> "H1", page |-> 1, font_size |-> 24] }

\* the classified lists of up to MaxHeadings headings, in (page, level) order
ClassifiedLists ==
    {SortByPageLevel(s) : s \in UNION {[1..n -> ClassifiedPool] : n \in 0..MaxHeadings}}

PostInit ==
    /\ input_dir = <<>>
    /\ pc = "post"
    /\ idx = 0
    /\ processed = 0
    /\ written = {}
    /\ log = <<>>
    /\ calls = <<>>
    /\ title = <<>>
    /\ doc_type \in DocTypes
    /\ classified_headings \in ClassifiedLists
    /\ headings = classified_headings
    /\ final_headings = <<>>
    /\ classify_path = ""
    /\ outline = NoResult
    /\ ClassifierUnset

PostSpec == PostInit /\ [][PostProcess]_vars

(***************************************************************************)
(* _classify_headings on its own: one extractor, called on several lists   *)
(***************************************************************************)
MaxRuns == 3

\* the labels KMeans(n_clusters, random_state=42).fit_predict can return for
\* the font sizes: n_clusters non-empty clusters, equal sizes in one cluster,
\* every cluster an interval of the sizes; the numbering of the clusters is
\* any
KMeansOutcomes(font_sizes, n_clusters) ==
    LET unique_sizes == UniqueSizes(font_sizes)
        u == Len(unique_sizes)
        labellings ==
            {f \in [1..u -> 0..(n_clusters - 1)] :
                /\ \A c \in 0..(n_clusters - 1) : \E a \in 1..u : f[a] = c
                /\ \A a, b, c \in 1..u :
                      (a < b /\ b < c /\ f[a] = f[c]) => f[b] = f[a]}
    IN  {[j \in 1..Len(font_sizes) |->
            f[CHOOSE a \in 1..u : unique_sizes[a] = font_sizes[j]]] :
         f \in labellings}

\* font_sizes = [h.font_size for h in headings]
FontSizes(hs) == [i \in 1..Len(hs) |-> hs[i].font_size]

\* n_clusters = min(4, len(unique_sizes))
NClusters(hs) ==
    LET n == Len(UniqueSizes(FontSizes(hs)))
    IN  IF n < 4 THEN n ELSE 4

\* how far the try block of _classify_headings gets: to its end (fails = "no"),
\* or to an exception at the import, in fit_predict, in the means, or in the
\* assignment loop after done headings have got their level
Attempts(hs) ==
    LET outcomes == KMeansOutcomes(FontSizes(hs), NClusters(hs))
    IN  {[fails |-> f, clusters |-> <<>>, done |-> 0] : f \in {"import", "fit"}}
        \cup {[fails |-> "means", clusters |-> cl, done |-> 0] : cl \in outcomes}
        \cup {[fails |-> "assign", clusters |-> cl, done |-> d] :
                cl \in outcomes, d \in 0..(Len(hs) - 1)}
        \cup {[fails |-> "no", clusters |-> cl, done |-> Len(hs)] :
                cl \in outcomes}

\* for i, heading in enumerate(headings): heading.level = ..., the first done
\* rounds of the loop
AssignLevels(hs, cl, to_level, done) ==
    [i \in 1..Len(hs) |->
       IF i <= done THEN [hs[i] EXCEPT !.level = to_level[cl[i]]]
       ELSE hs[i]]

\* the fallback that leaves the levels the interrupted loop has assigned
ClassifyAttempt_KeepsAssigned(hs, dt, attempt) ==
    LET to_level == ClusterToLevel(FontSizes(hs), attempt.clusters,
                                   NClusters(hs))
        simple == simple_classification(hs, dt)
    IN  IF attempt.fails = "no"
        THEN SortByPageLevel(AssignLevels(hs, attempt.clusters, to_level,
                                          Len(hs)))
        ELSE IF attempt.fails = "assign"
        THEN SortByPageLevel(
                 [i \in 1..Len(hs) |->
                    IF i <= attempt.done
                    THEN [hs[i] EXCEPT !.level = to_level[attempt.clusters[i]]]
                    ELSE [hs[i] EXCEPT !.level = SimpleLevel(hs[i].text)]])
        ELSE simple

\* what _classify_headings returns when its try block goes as the attempt says
ClassifyAttempt(hs, dt, attempt) ==
    LET to_level == ClusterToLevel(FontSizes(hs), attempt.clusters,
                                   NClusters(hs))
    IN  IF attempt.fails = "no"
        THEN SortByPageLevel(AssignLevels(hs, attempt.clusters, to_level,
                                          Len(hs)))
        ELSE IF attempt.fails = "assign"
        THEN simple_classification(
                 AssignLevels(hs, attempt.clusters, to_level, attempt.done),
                 dt)
        ELSE simple_classification(hs, dt)

\* heading lines as _extract_headings returns them
UnclassifiedPool ==
    { [text |-> <<"1","."," ","I","n","t","r","o","d","u","c","t","i","o","n"," ">>, level |-> "", page |-> 1, font_size |-> 24],
      [text |-> <<"R","e","f","e","r","e","n","c","e","s"," ">>, level |-> "", page |-> 2, font_size |-> 16],
      [text |-> <<"2",".","1",".","1"," ","D","e","t","a","i","l","s"," ">>, level |-> "", page |-> 1, font_size |-> 16],
      [text |-> <<"2",".","1"," ","S","c","o","p","e"," ">>, level |-> "", page |-> 1, font_size |-> 16] }

\* a list of headings with the given font sizes
SizedList(sizes) ==
    [i \in 1..Len(sizes) |->
       [text |-> <<"H","e","a","d","i","n","g"," ">>, level |-> "",
        page |-> IF i <= 2 THEN 1 ELSE 2, font_size |-> sizes[i]]]

\* the lists of up to MaxHeadings headings, a list of three and a list of five
\* distinct font sizes
ClassifyInputs ==
    UNION {[1..n -> UnclassifiedPool] : n \in 0..MaxHeadings}
    \cup {SizedList(<<10, 24, 16, 10>>), SizedList(<<12, 10, 24, 16, 14>>)}

\* the list of another document
OtherInput == SizedList(<<16, 24>>)

ClassifyInit ==
    /\ input_dir = <<>>
    /\ pc = "classify"
    /\ idx = 0
    /\ processed = 0
    /\ written = {}
    /\ log = <<>>
    /\ calls = <<>>
    /\ title = <<>>
    /\ doc_type = "general"
    /\ headings \in ClassifyInputs
    /\ classified_headings = <<>>
    /\ final_headings = <<>>
    /\ classify_path = ""
    /\ outline = NoResult
    /\ ClassifierUnset

\* KMeans without random_state: any attempt, whatever it did before
SeededAttempts_Unseeded(hs, seen) == Attempts(hs)

\* the attempt the seeded KMeans makes on the headings: what it did before on
\* the same font sizes, any attempt on sizes it has not seen
SeededAttempts(hs, seen) ==
    IF \E r \in seen : r.font_sizes = FontSizes(hs)
    THEN {r.attempt : r \in {x \in seen : x.font_sizes = FontSizes(hs)}}
    ELSE Attempts(hs)

\* a call of _classify_headings(headings, doc_type); a non-empty list is
\* changed in place and returned itself
ClassifyCall ==
    /\ pc = "classify"
    /\ IF ClassifyPath(headings, TRUE) # "kmeans"
       THEN /\ classified_headings' = classify_headings(headings, doc_type, TRUE)
            /\ classify_path' = ClassifyPath(headings, TRUE)
            /\ clusters' = <<>>
            /\ cluster_to_level' = <<>>
            /\ fitted' = fitted
       ELSE \E attempt \in SeededAttempts(headings, fitted) :
            /\ classified_headings' = ClassifyAttempt(headings, doc_type, attempt)
            /\ classify_path' = IF attempt.fails = "no" THEN "kmeans" ELSE "fallback"
            /\ clusters' = attempt.clusters
            /\ cluster_to_level' =
                  IF attempt.fails \in {"no", "assign"}
                  THEN ClusterToLevel(FontSizes(headings), attempt.clusters,
                                      NClusters(headings))
                  ELSE <<>>
            /\ fitted' = fitted \cup {[font_sizes |-> FontSizes(headings),
                                       attempt |-> attempt]}
    /\ runs' = Append(runs, [input |-> headings,
                             output |-> classified_headings',
                             path |-> classify_path'])
    /\ headings' = classified_headings'
    /\ pc' = "classified"
    /\ UNCHANGED <<input_dir, idx, processed, written, log, calls, title,
                   doc_type, final_headings, outline>>

\* the extractor is given the list of the next document: the first list
\* again, or another one
NextCall ==
    /\ pc = "classified"
    /\ Len(runs) < MaxRuns
    /\ \E next \in {runs[1].input, OtherInput} : headings' = next
    /\ classified_headings' = <<>>
    /\ classify_path' = ""
    /\ clusters' = <<>>
    /\ cluster_to_level' = <<>>
    /\ pc' = "classify"
    /\ UNCHANGED <<input_dir, idx, processed, written, log, calls, title,
                   doc_type, final_headings, outline, fitted, runs>>

ClassifyNext ==
    \/ ClassifyCall
    \/ NextCall

ClassifySpec == ClassifyInit /\ [][ClassifyNext]_vars

(***************************************************************************)
(* _detect_document_type on its own: documents of one line per page        *)
(***************************************************************************)
MaxPages == 4

\* the text of a page: a line with a trigger, half a trigger, or none
TypeLines ==
    { <<"H","o","p","e"," ","T","o"," ","S","e","e"," ","Y","o","u"," ","T","h","e","r","e">>, <<"R","F","P"," ","T","i","m","e","l","i","n","e">>, <<"A","p","p","l","i","c","a","t","i","o","n"," ","F","o","r","m">>,
      <<"O","v","e","r","v","i","e","w">>, <<"F","o","u","n","d","a","t","i","o","n"," ","L","e","v","e","l"," ","E","x","t","e","n","s","i","o","n","s">>, <<"P","a","r","s","i","p","p","a","n","y">>,
      <<"S","T","E","M"," ","P","a","t","h","w","a","y","s">>, <<"P","l","a","i","n"," ","t","e","x","t">> }

\* the documents of up to MaxPages pages
TypeDocs ==
    {MkPdf([i \in 1..Len(f) |->
              [styled |-> [line |-> f[i], size |-> 12, has_words |-> TRUE],
               new_page |-> TRUE]]) :
       f \in UNION {[1..n -> TypeLines] : n \in 0..MaxPages}}

TypeInit ==
    /\ input_dir \in {<<[name |-> <<"a",".","p","d","f">>, pdf |-> d]>> : d \in TypeDocs}
    /\ pc = "type"
    /\ idx = 1
    /\ processed = 0
    /\ written = {}
    /\ log = <<>>
    /\ calls = <<1>>
    /\ LocalsUnset
    /\ outline = NoResult
    /\ ClassifierUnset

TypeSpec == TypeInit /\ [][DetectType]_vars

(***************************************************************************)
(* Properties                                                              *)
(***************************************************************************)
\* ascending page, entries of one page in ascending level label
SortedByPageLevel(entries) ==
    \A i, j \in 1..Len(entries) :
       i < j => \/ entries[i].page < entries[j].page
                \/ /\ entries[i].page = entries[j].page
                   /\ LevelOrd(entries[i].level) <= LevelOrd(entries[j].level)

\* extract_outline has returned to main without raising
ReturnedNormally ==
    /\ pc = "write"
    /\ ~(Len(log) > 0 /\ log[Len(log)].msg = "Error processing PDF"
         /\ log[Len(log)].file = idx)

\* extract_outline has returned to main through its except clause
ReturnedByExcept ==
    /\ pc = "write"
    /\ Len(log) > 0
    /\ log[Len(log)].msg = "Error processing PDF"
    /\ log[Len(log)].file = idx

\* C1 as stated: for every document type the outline extract_outline returns
\* is sorted by ascending page, then ascending level label.
C1_SortedForEveryType ==
    pc = "write" => SortedByPageLevel(outline.outline)

\* The ordering that does hold: for every document type other than
\* "technical document" and "rfp document", whose branches of
\* _post_process_headings run after the sort, the outline extract_outline
\* returns is sorted by ascending page, then ascending level label.
C1_SortedOutsideOverrides ==
    (pc = "write"
     /\ detect_document_type(pdf) \notin {"technical document", "rfp document"})
    => SortedByPageLevel(outline.outline)

\* a general document whose page 1 reads "1.1 Background" (size 16) and then
\* "INTRODUCTION" (size 24): the outline has them in level order
SortedOutline_Witness ==
    /\ ReturnedNormally
    /\ detect_document_type(pdf) = "general"
    /\ Len(pdf.pages) = 1
    /\ pdf.pages[1].text = <<"1",".","1"," ","B","a","c","k","g","r","o","u","n","d">> \o <<"\n">> \o <<"I","N","T","R","O","D","U","C","T","I","O","N">>
    /\ outline.outline =
         << [level |-> "H1", text |-> <<"I","N","T","R","O","D","U","C","T","I","O","N"," ">>, page |-> 1],
            [level |-> "H2", text |-> <<"1",".","1"," ","B","a","c","k","g","r","o","u","n","d"," ">>, page |-> 1] >>

C3_ScenarioOutline ==
    (pc = "result" /\ pdf = ScenarioPdf /\ classify_path = "kmeans")
    => BuildResult(title, final_headings).outline =
         << [level |-> "H1", text |-> <<"I","N","T","R","O","D","U","C","T","I","O","N"," ">>, page |-> 1],
            [level |-> "H2", text |-> <<"1",".","1"," ","B","a","c","k","g","r","o","u","n","d"," ">>, page |-> 2] >>

\* C4: when opening the document or a stage raises, extract_outline returns
\* exactly {title: "Unknown", outline: []} to its caller.
C4_FailsClosed ==
    ReturnedByExcept => outline = [title |-> Unknown, outline |-> <<>>]

\* a stage has raised on a document that has a title of its own and headings
C4_Witness ==
    /\ ReturnedByExcept
    /\ extract_title(pdf) # Unknown
    /\ Len(extract_headings(pdf, detect_document_type(pdf))) > 0

\* the files of the directory that main takes for PDFs
PdfFiles == {i \in 1..Len(input_dir) : IsPdfName(input_dir[i].name)}

\* extract_outline has been called once for every PDF and for no other file
EveryPdfAttemptedOnce ==
    \A i \in 1..Len(input_dir) : calls[i] = IF i \in PdfFiles THEN 1 ELSE 0

\* the file's extraction went through the except clause of extract_outline
ExtractionFailed(i) ==
    \E k \in 1..Len(log) : log[k].msg = "Error processing PDF" /\ log[k].file = i

\* main's except clause ran for the file
FileFailed(i) ==
    \E k \in 1..Len(log) : log[k].msg = "Error processing file" /\ log[k].file = i

FileReported(i) ==
    \E k \in 1..Len(log) : log[k].msg = "Processed" /\ log[k].file = i

\* C5: whatever documents fail, extract_outline is called exactly once for
\* each PDF of the directory and the run ends with its summary.
C5_BatchRunsToSummary ==
    <>( /\ pc = "done"
        /\ EveryPdfAttemptedOnce
        /\ log[Len(log)].msg \in {"Done", "No PDF files found"} )

\* a run of two PDFs: the first failed in extraction and in writing, the
\* second was processed
C5_Witness ==
    /\ pc = "done"
    /\ Len(input_dir) = 2
    /\ PdfFiles = {1, 2}
    /\ ExtractionFailed(1)
    /\ FileFailed(1)
    /\ FileReported(2)
    /\ EveryPdfAttemptedOnce

\* C6 as stated: at the end of the run the count is the number of documents
\* processed successfully; a document whose extraction failed is not counted.
C6_CountIsSuccesses ==
    pc = "done"
    => processed = Cardinality({i \in PdfFiles :
                                   FileReported(i) /\ ~ExtractionFailed(i)})

\* C7: for "application form" _post_process_headings returns the empty list
\* whatever the classified list is.
C7_FormOutlineEmpty ==
    (pc = "result" /\ doc_type = "application form") => final_headings = <<>>

\* the application form branch has run on a list of two headings
C7_Witness ==
    /\ pc = "result"
    /\ doc_type = "application form"
    /\ Len(classified_headings) = 2

\* the lines of page p, as _extract_headings reads them
PageLines(p) == SplitLines(pdf.pages[p].text)

\* any(re.search(pattern, text.lower().strip())) over the skip patterns
MatchesSkip(text) == skip_patterns(Strip(Lower(text)))

\* C8 as stated: a page line that matches a skip pattern yields no entry of
\* the final heading list, whatever else the line contains.
C8_SkipLineNeverHeading ==
    pc = "result"
    => \A p \in 1..Len(pdf.pages) :
          \A k \in 1..Len(PageLines(p)) :
             MatchesSkip(PageLines(p)[k])
             => ~\E i \in 1..Len(final_headings) :
                    final_headings[i].text = CleanText(Strip(PageLines(p)[k]))

\* C8 amended: a page line whose text still matches a skip pattern after its
\* leader dots and what follows them are stripped yields no entry of the
\* heading list _extract_headings returns nor of the final heading list,
\* whatever its font size.
C8_SkipTextNeverHeading ==
    pc \in {"classify", "post", "result"}
    => \A p \in 1..Len(pdf.pages) :
          \A k \in 1..Len(PageLines(p)) :
             MatchesSkip(CleanText(Strip(PageLines(p)[k])))
             => /\ ~\E i \in 1..Len(headings) :
                      headings[i].text = CleanText(Strip(PageLines(p)[k]))
                /\ ~\E i \in 1..Len(final_headings) :
                      final_headings[i].text = CleanText(Strip(PageLines(p)[k]))

\* "Page 3 of 10" in the largest font of its page, taken for a heading line,
\* on a page that has another heading; the final list holds the other only
C8_Witness ==
    /\ pc = "result"
    /\ doc_type = "general"
    /\ Len(final_headings) = 1
    /\ \E k \in 1..Len(PageLines(1)) :
          /\ PageLines(1)[k] = <<"P","a","g","e"," ","3"," ","o","f"," ","1","0">>
          /\ is_potential_heading_line(PageLines(1)[k], doc_type)
          /\ LineFontSize(pdf.pages[1].words, PageLines(1)[k]) = 24
    /\ \A i \in 1..Len(final_headings) : final_headings[i].font_size < 24

\* line k of page p is taken for a heading by _extract_headings
AcceptedLine(p, k) ==
    LET text == Strip(PageLines(p)[k])
    IN  /\ Len(text) >= 3
        /\ Len(text) <= 200
        /\ is_potential_heading_line(text, doc_type)

\* the first accepted line of page p whose cleaned text is t, 0 when none
FirstSeen(p, t) ==
    LET ks == {k \in 1..Len(PageLines(p)) :
                 AcceptedLine(p, k) /\ CleanText(Strip(PageLines(p)[k])) = t}
    IN  IF ks = {} THEN 0 ELSE CHOOSE k \in ks : \A m \in ks : k <= m

AllWordsSameSize(d) ==
    Cardinality(UNION {{d.pages[p].words[w].size : w \in 1..Len(d.pages[p].words)} :
                       p \in 1..Len(d.pages)}) <= 1

\* C10 as stated: for a document in which all words have the same font size
\* _classify_headings never runs k-means.
C10_DegenerateNeverClusters ==
    (pc = "post" /\ AllWordsSameSize(pdf)) => classify_path # "kmeans"


\* the last call of _classify_headings has returned from the clustering path
ClusteredReturn ==
    /\ pc = "classified"
    /\ classify_path = "kmeans"

\* the list the last call of _classify_headings was given
LastInput == runs[Len(runs)].input

\* the clusters of the last call whose mean font size is greater than c's
GreaterMeans(c) ==
    {d \in 0..(NClusters(LastInput) - 1) :
        MeanGreater(FontSizes(LastInput), clusters, d, c)}

\* C11: in the clustering path the cluster with the largest mean font size is
\* mapped to H1 and the clusters of strictly decreasing mean to H2, H3, H4 in
\* that order, every heading gets the level of its cluster, and so no heading
\* of a cluster with a larger mean is deeper than one of a smaller mean.
C11_LevelsFollowMeans ==
    ClusteredReturn
    => /\ \A c \in 0..(NClusters(LastInput) - 1) :
             cluster_to_level[c] = level_names[Cardinality(GreaterMeans(c)) + 1]
       /\ \A i \in 1..Len(LastInput) :
             \E j \in 1..Len(classified_headings) :
                classified_headings[j] =
                   [LastInput[i] EXCEPT !.level = cluster_to_level[clusters[i]]]
       /\ \A i, j \in 1..Len(LastInput) :
             MeanGreater(FontSizes(LastInput), clusters, clusters[i], clusters[j])
             => LevelOrd(cluster_to_level[clusters[i]])
                   < LevelOrd(cluster_to_level[clusters[j]])

\* five distinct font sizes in four clusters, the largest size in the cluster
\* numbered 2 and the two smallest sizes together in the cluster numbered 0
C11_Witness ==
    /\ ClusteredReturn
    /\ FontSizes(LastInput) = <<12, 10, 24, 16, 14>>
    /\ clusters = <<0, 0, 2, 3, 1>>
    /\ cluster_to_level = (0 :> "H4" @@ 1 :> "H3" @@ 2 :> "H1" @@ 3 :> "H2")

C13_GeneralPassThrough ==
    [][(pc = "post" /\ doc_type \in {"general", "unknown"})
       => /\ final_headings' = classified_headings
          /\ classified_headings' = classified_headings]_vars

\* a general document's list holding headings the other branches would drop
\* or change has been passed through
C13_Witness ==
    /\ pc = "result"
    /\ doc_type = "general"
    /\ Len(final_headings) = 2
    /\ final_headings[1].text = <<"H","o","p","e"," ","T","o"," ","S","e","e"," ","Y","o","u"," ","T","h","e","r","e"," ">>
    /\ final_headings[1].level = "H2"
    /\ final_headings[1].page = 2
    /\ final_headings[2].text = <<"R","e","f","e","r","e","n","c","e","s"," ">>
    /\ final_headings = classified_headings

\* the phrase the branch of the document type looks for
PhraseOf(dt) ==
    IF dt = "invitation" THEN <<"h","o","p","e"," ","t","o"," ","s","e","e"," ","y","o","u"," ","t","h","e","r","e">> ELSE <<"p","a","t","h","w","a","y"," ","o","p","t","i","o","n","s">>

\* the positions of the list whose lowercase text contains the phrase
PhraseHits(list, phrase) ==
    {i \in 1..Len(list) : Contains(Lower(list[i].text), phrase)}

\* C14: for "invitation" and "educational" _post_process_headings returns at
\* most one heading: the first heading of the classified list whose lowercase
\* text contains the type's phrase, with level "H1" and page 0, and the empty
\* list when no heading contains the phrase.
C14_FirstPhraseHeadingOnly ==
    [][(pc = "post" /\ doc_type \in {"invitation", "educational"})
       => LET hits == PhraseHits(classified_headings, PhraseOf(doc_type))
          IN  IF hits = {} THEN final_headings' = <<>>
              ELSE LET first == CHOOSE i \in hits : \A j \in hits : i <= j
                   IN  final_headings' =
                          << [text |-> classified_headings[first].text,
                              level |-> "H1",
                              page |-> 0,
                              font_size |-> classified_headings[first].font_size] >>]_vars

\* an invitation whose second heading holds the phrase: it alone is returned,
\* as H1 on page 0
C14_Witness ==
    /\ pc = "result"
    /\ doc_type = "invitation"
    /\ Len(classified_headings) = 2
    /\ classified_headings[1].text = <<"I","N","T","R","O","D","U","C","T","I","O","N"," ">>
    /\ final_headings =
          << [text |-> <<"H","o","p","e"," ","T","o"," ","S","e","e"," ","Y","o","u"," ","T","h","e","r","e"," ">>, level |-> "H1", page |-> 0,
              font_size |-> 16] >>

\* the page the lookup table of the technical branch gives a numeric prefix;
\* 0 for a prefix the table does not hold
PrefixTablePage(prefix) ==
    CASE prefix \in {<<"2",".","1">>, <<"2",".","2">>, <<"2",".","3">>} -> 6
      [] prefix \in {<<"2",".","4">>, <<"2",".","5">>} -> 7
      [] prefix = <<"2",".","6">> -> 8
      [] prefix \in {<<"3",".","1">>, <<"3",".","2">>} -> 9
      [] prefix \in {<<"4",".","1">>, <<"4",".","2">>} -> 11
      [] OTHER -> 0

\* the "<n>.<n>" a heading text starts with
NumericPrefix(text) == SubSeq(text, 1, NumNumEnd(text) - 1)

IsBlank(text) == \A i \in 1..Len(text) : IsSpace(text[i])

\* C16 as stated: _extract_title never returns an empty or whitespace-only
\* title; a document without pages or without usable title text gets
\* "Unknown".
C16_TitleNeverBlank ==
    (pc = "type" => ~IsBlank(title))
    /\ ((pc = "type" /\ Len(pdf.pages) = 0) => title = Unknown)

\* the numbered-chapter patterns of the simple classification, on the
\* lower-case text
ChapterPattern(low) ==
    \/ LET a == NumDotEnd(low, 1)
       IN  a > 0 /\ LET s == SpacesEnd(low, a)
                    IN  s <= Len(low) /\ low[s] \in LowerChars
    \/ MatchWordThen(low, <<"c","h","a","p","t","e","r">>, DigitChars)
    \/ MatchWordThen(low, <<"s","e","c","t","i","o","n">>, DigitChars)
    \/ MatchWordThen(low, <<"a","p","p","e","n","d","i","x">>, LowerChars)

\* the level the rules of the simple classification are said to give a text:
\* H1 for a chapter pattern or a canonical name (with or without its trailing
\* space), H3 for "n.n.n", H2 for "n.n", H4 otherwise
StatedSimpleLevel(text) ==
    LET low == Lower(text)
    IN  IF \/ ChapterPattern(Strip(low))
           \/ low \in canonical_names
           \/ Strip(low) \in canonical_names
        THEN "H1"
        ELSE IF NumNumNumEnd(Strip(low)) > 0 THEN "H3"
        ELSE IF NumNumEnd(Strip(low)) > 0 THEN "H2"
        ELSE "H4"

\* C17 as stated: in the simple classification path every heading gets the
\* level of the stated rules; "2.1.1 Details " gets H3 and "References " H1.
C17_SimpleLevelsAsStated ==
    (pc = "classified" /\ classify_path \in {"simple", "fallback"})
    => \A j \in 1..Len(classified_headings) :
          classified_headings[j].level =
             StatedSimpleLevel(classified_headings[j].text)

\* the last call of _classify_headings went into its try block and left it by
\* an exception
FellBack ==
    /\ pc = "classified"
    /\ classify_path = "fallback"

\* C18: when clustering fails at any point of the try block (import, fitting,
\* means, level assignment) _classify_headings returns what the simple
\* classifier returns on the same headings: every heading of the input is in
\* the result with the level of the simple rules, one of H1..H4, and no level
\* of the interrupted clustering is left.
C18_FallbackIsSimple ==
    FellBack
    => /\ classified_headings = simple_classification(LastInput, doc_type)
       /\ Len(classified_headings) = Len(LastInput)
       /\ \A j \in 1..Len(classified_headings) :
             /\ classified_headings[j].level \in {"H1", "H2", "H3", "H4"}
             /\ classified_headings[j].level
                   = SimpleLevel(classified_headings[j].text)
       /\ \A i \in 1..Len(LastInput) :
             \E j \in 1..Len(classified_headings) :
                classified_headings[j] =
                   [LastInput[i] EXCEPT !.level = SimpleLevel(LastInput[i].text)]
       /\ SortedByPageLevel(classified_headings)

\* the assignment loop failed after it had given "References " the level H2
\* of its cluster; the result has it with H4, the level of the simple rules
C18_Witness ==
    /\ FellBack
    /\ Len(LastInput) = 2
    /\ LastInput[1].text = <<"R","e","f","e","r","e","n","c","e","s"," ">>
    /\ LastInput[2].text = <<"1","."," ","I","n","t","r","o","d","u","c","t","i","o","n"," ">>
    /\ \E r \in fitted : /\ r.font_sizes = FontSizes(LastInput)
                         /\ r.attempt.fails = "assign"
                         /\ r.attempt.done = 1
    /\ cluster_to_level[clusters[1]] = "H2"
    /\ classified_headings[1].text = <<"1","."," ","I","n","t","r","o","d","u","c","t","i","o","n"," ">>
    /\ classified_headings[1].level = "H1"
    /\ classified_headings[2].level = "H4"

\* the lower-case text of the first min(3, page count) pages of the document
FirstPagesText ==
    ConcatLowerText(pdf.pages, IF Len(pdf.pages) < 3 THEN Len(pdf.pages) ELSE 3)

InvitationTrigger(t) ==
    Contains(t, <<"h","o","p","e"," ","t","o"," ","s","e","e"," ","y","o","u"," ","t","h","e","r","e">>) \/ Contains(t, <<"t","o","p","j","u","m","p">>)

RfpTrigger(t) ==
    \/ Contains(t, <<"r","f","p">>)
    \/ Contains(t, <<"r","e","q","u","e","s","t"," ","f","o","r"," ","p","r","o","p","o","s","a","l">>)
    \/ Contains(t, <<"o","n","t","a","r","i","o">>) /\ Contains(t, <<"d","i","g","i","t","a","l"," ","l","i","b","r","a","r","y">>)

FormTrigger(t) ==
    Contains(t, <<"a","p","p","l","i","c","a","t","i","o","n"," ","f","o","r","m">>) \/ Contains(t, <<"g","r","a","n","t"," ","o","f"," ","l","t","c">>)

TechnicalTrigger(t) ==
    Contains(t, <<"o","v","e","r","v","i","e","w">>) /\ Contains(t, <<"f","o","u","n","d","a","t","i","o","n"," ","l","e","v","e","l"," ","e","x","t","e","n","s","i","o","n","s">>)

EducationalTrigger(t) ==
    Contains(t, <<"p","a","r","s","i","p","p","a","n","y">>) /\ Contains(t, <<"s","t","e","m"," ","p","a","t","h","w","a","y","s">>)

\* C19: _detect_document_type decides by the first trigger that matches the
\* lower-case text of the first min(3, page count) pages, in the order
\* invitation, rfp document, application form, technical document,
\* educational; it returns "unknown" exactly for a document without pages and
\* "general" for a document with pages and no matching trigger.
C19_FirstTriggerDecides ==
    pc = "headings"
    => /\ doc_type = "unknown" <=> Len(pdf.pages) = 0
       /\ Len(pdf.pages) > 0 =>
            LET t == FirstPagesText
            IN  doc_type =
                  IF InvitationTrigger(t) THEN "invitation"
                  ELSE IF RfpTrigger(t) THEN "rfp document"
                  ELSE IF FormTrigger(t) THEN "application form"
                  ELSE IF TechnicalTrigger(t) THEN "technical document"
                  ELSE IF EducationalTrigger(t) THEN "educational"
                  ELSE "general"

\* a document whose first three pages match the rfp, the application form and
\* the invitation trigger, in this order, is tagged "invitation"
C19_Witness ==
    /\ pc = "headings"
    /\ doc_type = "invitation"
    /\ Len(pdf.pages) = 4
    /\ pdf.pages[1].text = <<"R","F","P"," ","T","i","m","e","l","i","n","e">>
    /\ pdf.pages[2].text = <<"A","p","p","l","i","c","a","t","i","o","n"," ","F","o","r","m">>
    /\ pdf.pages[3].text = <<"H","o","p","e"," ","T","o"," ","S","e","e"," ","Y","o","u"," ","T","h","e","r","e">>
    /\ pdf.pages[4].text = <<"P","a","r","s","i","p","p","a","n","y">>

\* how often the heading occurs in the list
Occurrences(list, h) == Cardinality({i \in 1..Len(list) : list[i] = h})

\* C20 as stated: for "technical document" no heading of the classified list
\* is in the list _post_process_headings returns more often than it is in the
\* classified list.
C20_TechnicalNoDuplicates ==
    (pc = "result" /\ doc_type = "technical document")
    => \A j \in 1..Len(final_headings) :
          Occurrences(final_headings, final_headings[j])
             <= Occurrences(classified_headings, final_headings[j])
====
